---- MODULE Spec2Model ----
(***************************************************************************)
(* BaseMatch: the daily swipe quota of the prototype dating clients.       *)
(*                                                                         *)
(* The repository holds several variants of the same client.  Each keeps   *)
(* one status document per user in Firestore (swipe counter, start of the  *)
(* quota window, premium flag), mirrors it into React state through an     *)
(* onSnapshot listener and changes it from its handlers.                   *)
(*                                                                         *)
(*   App  src/unnamed/part_000, lines 1-455: counter incremented inside    *)
(*        runTransaction, 24 h reset from the snapshot listener            *)
(*   DSS  src/unnamed/part_002: DatingSwipeScreen, counter written with    *)
(*        updateDoc from the local snapshot, calendar-day reset            *)
(*                                                                         *)
(* Two clients (tabs, devices) of the same user share the document.       *)
(* A client's React state lags the document until its listener runs.       *)
(* Times are milliseconds since the epoch; the clock advances in steps of  *)
(* half a day.  The status record uses one set of field names for all      *)
(* variants: swipeCount (swipeCount / swipesToday), windowStart            *)
(* (lastSwipeDate / lastResetDate), isPremium.                             *)
(***************************************************************************)
EXTENDS Integers, FiniteSets, Sequences, TLC

\* ------------------------------------------------------------------ bounds
MaxSwipes == 2
MaxTicks == 1

\* --------------------------------------------------------------- constants
DAILY_LIMIT == 50
DAILY_SWIPE_LIMIT == 50
UNLIMITED_SWIPE_SIMULATION == 9999
MILLISECONDS_IN_DAY == 24 * 60 * 60 * 1000

\* The two clients of the user: two tabs or two devices.
Clients == {1, 2}
HalfDay == MILLISECONDS_IN_DAY \div 2
QuarterDay == MILLISECONDS_IN_DAY \div 4
\* The clock reading when the clients start: noon of day 2.
StartTime == 2 * MILLISECONDS_IN_DAY + HalfDay
\* The evening before: 18 hours before the clients start.
Yesterday == StartTime - 3 * QuarterDay
\* No date: null / undefined / a missing field.
NoDate == -1
\* No counter write in flight.
NoWrite == [val |-> -1, ws |-> NoDate]

VARIABLES
    variant,        \* which program runs: "App", "DSS", "BM", "P1", "Chat", "Id"
    active,         \* the clients that run (one, or all of them)
    now,            \* the clock, new Date()
    store,          \* the user's status document in Firestore
    userStatus,     \* per client: React state userStatus / swipeData
    snap,           \* per client: kind of the last snapshot its listener got
    isLoading,      \* per client: React state isLoading (App)
    showLimitModal, \* per client: React state showLimitModal / showModal
    message,        \* the latest message shown (setMessage): kind, number shown
    currentProfile, \* per client: React state currentProfile (DSS)
    inTxn,          \* per client: handleSwipe awaits its transaction / write
    pendingReset,   \* per client: date of a reset write in flight, or NoDate
    pendingCreate,  \* per client: date of an initial setDoc in flight, or NoDate
    pendingSwipe,   \* per client: the counter write handleSwipe awaits (DSS), or NoWrite
    pendingPremium, \* per client: isPremium of the status a reset write in flight carries (BM)
    nCalls,         \* handleSwipe calls made so far (history)
    caller,         \* the client that made the latest handleSwipe call (history)
    allowedInWindow,\* swipes counted since the window was (re)started (history)
    windowBase      \* stored counter when the window was (re)started (history)

\* The matchmaking of the second application of src/unnamed/part_001.
VARIABLES
    owner,            \* per client: the user id (uid) it is signed in with
    publicLikes,      \* public/data/likes: per <<likerId, likedId>>, the number of documents
    privateLikes,     \* users/{u}/likes/{p}: per <<u, p>>, the action stored, or "none"
    matches,          \* per user: its document users/{u}/matches/{matchId}, or NoMatch
    pc,               \* per client: the await handleSwipe is at
    act,              \* per client: the action of the handleSwipe call under way
    matchNotification,\* per client: React state matchNotification (the id, or NoId)
    matchesList,      \* per client: React state matchesList (the match ids)
    metadata,         \* per user: its document users/{u}/metadata/data
    profiles,         \* per client: React state profiles (the ids, in order)
    nFail,            \* rejected Firestore calls so far (history)
    reported          \* per client: what its latest finished like reported (history)

matchVars == <<owner, publicLikes, privateLikes, matches, pc, act, matchNotification,
               matchesList, metadata, profiles, nFail, reported>>

\* The like of the chat application of src/unnamed/part_000 (lines 457 on).
VARIABLES
    chats,            \* users/{fid}/chats: the <<fid, profile id>> that have a chat document
    pendingChat,      \* per client: the profile ids whose chat setDoc is in flight
    isMatchModalOpen, \* per client: React state isMatchModalOpen
    newChatId,        \* per client: React state newChatId (a profile id, or NoId)
    activeTab,        \* per client: React state activeTab
    selectedChatId    \* per client: React state selectedChatId (a profile id, or NoId)

chatVars == <<chats, pendingChat, isMatchModalOpen, newChatId, activeTab, selectedChatId>>

\* The computation of a match id.
VARIABLES
    argA,             \* first user id
    argB,             \* second user id
    result            \* the match id computed, or <<>>

idVars == <<argA, argB, result>>

\* History of the swipe under way.
VARIABLES
    indexAtCall       \* per client: currentProfile when its latest allowed swipe began

histVars == <<indexAtCall>>

\* Authentication.
VARIABLES
    sessionUserId     \* per client: React state userId (NoId is null)

authVars == <<sessionUserId>>

\* The messages of the chat application.
VARIABLES
    messages,         \* per <<fid, profile id>>: the messages array of the chat document
    pendingSend,      \* per client: the handleSendMessage calls under way
    nSent,            \* handleSendMessage calls so far (numbers the messages)
    sent              \* the messages whose setDoc resolved (history)

msgVars == <<messages, pendingSend, nSent, sent>>

VARIABLES
    modal             \* per client: the upgrade modal's step, wallet and mint under way

modalVars == <<modal>>

VARIABLES
    fetch             \* the fetchWithRetry call: its arguments, attempt, waits and outcome

fetchVars == <<fetch>>

restVars == <<authVars, msgVars, modalVars, fetchVars>>

otherVars == <<matchVars, chatVars, idVars, histVars, restVars>>

quotaVars == <<variant, active, now, store, userStatus, snap, isLoading, showLimitModal,
               message, currentProfile, inTxn, pendingReset, pendingCreate, pendingSwipe,
               pendingPremium, nCalls, caller, allowedInWindow, windowBase>>

vars == <<quotaVars, otherVars>>

\* ------------------------------------------------------------ status values
Status(n, d, p) == [swipeCount |-> n, windowStart |-> d, isPremium |-> p]

Doc(n, d, p) == [exists |-> TRUE, swipeCount |-> n, windowStart |-> d, isPremium |-> p]

NoDoc == [exists |-> FALSE, swipeCount |-> 0, windowStart |-> NoDate, isPremium |-> FALSE]

DocStatus(d) == Status(d.swipeCount, d.windowStart, d.isPremium)

\* part_000: const INITIAL_USER_STATUS: lastSwipeDate is new Date(0).
INITIAL_USER_STATUS == Status(0, 0, FALSE)

Msg(k, n) == [kind |-> k, n |-> n]

NoMsg == Msg("none", 0)

Max(a, b) == IF a >= b THEN a ELSE b

\* How many handleSwipe calls a client makes in a behaviour: a single client
\* may swipe through a whole quota, concurrent clients swipe a few times.
Budget == IF Cardinality(active) = 1 THEN DAILY_LIMIT + 1 ELSE MaxSwipes

\* ===================================================================== App
\* src/unnamed/part_000, lines 1-455: the transactional client.

\* resetSwipeCount's test: not premium, 24 hours since lastSwipeDate, count > 0.
App_shouldReset(st) ==
    /\ ~st.isPremium
    /\ now - st.windowStart >= MILLISECONDS_IN_DAY
    /\ st.swipeCount > 0

\* Mutant of App_atLimit: the limit test is off by one.
App_atLimit_above(n) == n > DAILY_LIMIT

\* The limit test of handleSwipe, before and inside the transaction.
App_atLimit(n) == n >= DAILY_LIMIT

\* Mutant of App_txnCount: the transaction works on the counter of the
\* client's React state instead of the document it read.
App_txnCount_local(c) == userStatus[c].swipeCount

\* The counter handleSwipe's transaction works on: data.swipeCount || 0, read
\* from the document inside the transaction.
App_txnCount(c) == store.swipeCount

\* swipesRemaining as rendered; -1 stands for "Unlimited".
swipesRemaining(c) ==
    IF userStatus[c].isPremium THEN -1
    ELSE Max(0, DAILY_LIMIT - userStatus[c].swipeCount)

isLimitReached(c) == ~userStatus[c].isPremium /\ swipesRemaining(c) = 0

\* The history of the quota window: a write that zeroes the counter starts a
\* window, a counted swipe adds one to it.
WindowRestart == allowedInWindow' = 0 /\ windowBase' = 0

WindowCounted == allowedInWindow' = allowedInWindow + 1 /\ UNCHANGED windowBase

WindowSame == UNCHANGED <<allowedInWindow, windowBase>>

\* onSnapshot callback on the status document.
App_onSnapshot(c) ==
    /\ variant = "App" /\ c \in active
    /\ IF store.exists
       THEN /\ snap[c] # "doc" \/ DocStatus(store) # userStatus[c]
            /\ App_shouldReset(DocStatus(store)) => pendingReset[c] = NoDate
            /\ userStatus' = [userStatus EXCEPT ![c] = DocStatus(store)]
            /\ isLoading' = [isLoading EXCEPT ![c] = FALSE]
            /\ snap' = [snap EXCEPT ![c] = "doc"]
            /\ pendingReset' = IF App_shouldReset(DocStatus(store))
                               THEN [pendingReset EXCEPT ![c] = now]
                               ELSE pendingReset
            /\ UNCHANGED pendingCreate
       ELSE /\ snap[c] = "none"
            /\ snap' = [snap EXCEPT ![c] = "absent"]
            /\ pendingCreate' = [pendingCreate EXCEPT ![c] = INITIAL_USER_STATUS.windowStart]
            /\ UNCHANGED <<userStatus, isLoading, pendingReset>>
    /\ UNCHANGED <<otherVars, variant, active, pendingPremium, now, store, showLimitModal, message, currentProfile,
                   inTxn, nCalls, allowedInWindow, windowBase, pendingSwipe, caller>>

\* The listener's setDoc(statusDocRef, INITIAL_USER_STATUS, {merge: true}) lands.
App_createCommit(c) ==
    /\ variant = "App" /\ c \in active
    /\ pendingCreate[c] # NoDate
    /\ store' = Doc(INITIAL_USER_STATUS.swipeCount, pendingCreate[c],
                    INITIAL_USER_STATUS.isPremium)
    /\ pendingCreate' = [pendingCreate EXCEPT ![c] = NoDate]
    /\ isLoading' = [isLoading EXCEPT ![c] = FALSE]
    /\ WindowRestart
    /\ UNCHANGED <<otherVars, variant, active, pendingPremium, now, userStatus, snap, showLimitModal, message,
                   currentProfile, inTxn, pendingReset, nCalls, pendingSwipe, caller>>

\* The same setDoc is rejected.
App_createFail(c) ==
    /\ variant = "App" /\ c \in active
    /\ pendingCreate[c] # NoDate
    /\ pendingCreate' = [pendingCreate EXCEPT ![c] = NoDate]
    /\ isLoading' = [isLoading EXCEPT ![c] = FALSE]
    /\ UNCHANGED <<otherVars, variant, active, pendingPremium, now, store, userStatus, snap, showLimitModal, message,
                   currentProfile, inTxn, pendingReset, nCalls, allowedInWindow,
                   windowBase, pendingSwipe, caller>>

\* resetSwipeCount's transaction commits: a blind update of count and date.
App_resetCommit(c) ==
    /\ variant = "App" /\ c \in active
    /\ pendingReset[c] # NoDate
    /\ store.exists
    /\ store' = [store EXCEPT !.swipeCount = 0, !.windowStart = pendingReset[c]]
    /\ pendingReset' = [pendingReset EXCEPT ![c] = NoDate]
    /\ message' = Msg("reset", 0)
    /\ WindowRestart
    /\ UNCHANGED <<otherVars, variant, active, pendingPremium, now, userStatus, snap, isLoading, showLimitModal,
                   currentProfile, inTxn, pendingCreate, nCalls, pendingSwipe, caller>>

\* resetSwipeCount's transaction fails.
App_resetFail(c) ==
    /\ variant = "App" /\ c \in active
    /\ pendingReset[c] # NoDate
    /\ pendingReset' = [pendingReset EXCEPT ![c] = NoDate]
    /\ message' = Msg("reset_error", 0)
    /\ UNCHANGED <<otherVars, variant, active, pendingPremium, now, store, userStatus, snap, isLoading,
                   showLimitModal, currentProfile, inTxn, pendingCreate, nCalls,
                   allowedInWindow, windowBase, pendingSwipe, caller>>

\* Mutant of App_isPremium: handleSwipe ignores the premium flag.
App_isPremium_never(c) == FALSE

\* handleSwipe's premium test: userStatus.isPremium.
App_isPremium(c) == userStatus[c].isPremium

\* handleSwipe up to the call of runTransaction.
App_handleSwipe(c) ==
    /\ variant = "App" /\ c \in active
    /\ ~isLoading[c]
    /\ ~inTxn[c]
    /\ nCalls < Budget
    /\ nCalls' = nCalls + 1
    /\ caller' = c
    /\ IF App_isPremium(c)
       THEN /\ message' = Msg("premium", 0)
            /\ UNCHANGED <<showLimitModal, inTxn>>
       ELSE IF App_atLimit(userStatus[c].swipeCount)
       THEN /\ showLimitModal' = [showLimitModal EXCEPT ![c] = TRUE]
            /\ UNCHANGED <<message, inTxn>>
       ELSE /\ inTxn' = [inTxn EXCEPT ![c] = TRUE]
            /\ UNCHANGED <<message, showLimitModal>>
    /\ UNCHANGED <<otherVars, variant, active, pendingPremium, now, store, userStatus, snap, isLoading,
                   currentProfile, pendingReset, pendingCreate, allowedInWindow,
                   windowBase, pendingSwipe>>

\* Mutant of App_afterTxn: the remaining swipes are computed from the count
\* before the increment.
App_afterTxn_stale(c, newCount) ==
    IF newCount = DAILY_LIMIT
    THEN /\ showLimitModal' = [showLimitModal EXCEPT ![c] = TRUE]
         /\ message' = Msg("success_limit", 0)
    ELSE IF newCount > DAILY_LIMIT
    THEN /\ showLimitModal' = [showLimitModal EXCEPT ![c] = TRUE]
         /\ UNCHANGED message
    ELSE /\ message' = Msg("success", DAILY_LIMIT - (newCount - 1))
         /\ UNCHANGED showLimitModal

\* What handleSwipe does with the transaction's result newCount.
App_afterTxn(c, newCount) ==
    IF newCount = DAILY_LIMIT
    THEN /\ showLimitModal' = [showLimitModal EXCEPT ![c] = TRUE]
         /\ message' = Msg("success_limit", 0)
    ELSE IF newCount > DAILY_LIMIT
    THEN /\ showLimitModal' = [showLimitModal EXCEPT ![c] = TRUE]
         /\ UNCHANGED message
    ELSE /\ message' = Msg("success", DAILY_LIMIT - newCount)
         /\ UNCHANGED showLimitModal

\* handleSwipe's transaction runs and commits: read, re-check, update.
App_swipeCommit(c) ==
    /\ variant = "App" /\ c \in active
    /\ inTxn[c]
    /\ inTxn' = [inTxn EXCEPT ![c] = FALSE]
    /\ IF ~store.exists
       THEN /\ message' = Msg("swipe_error", 0)
            /\ WindowSame
            /\ UNCHANGED <<store, showLimitModal>>
       ELSE IF App_atLimit(App_txnCount(c))
       THEN /\ App_afterTxn(c, DAILY_LIMIT)
            /\ WindowSame
            /\ UNCHANGED store
       ELSE /\ store' = [store EXCEPT !.swipeCount = App_txnCount(c) + 1,
                                      !.windowStart = now]
            /\ App_afterTxn(c, App_txnCount(c) + 1)
            /\ WindowCounted
    /\ UNCHANGED <<otherVars, variant, active, pendingPremium, now, userStatus, snap, isLoading, currentProfile,
                   pendingReset, pendingCreate, nCalls, pendingSwipe, caller>>

\* handleSwipe's transaction is aborted: the catch branch.
App_swipeFail(c) ==
    /\ variant = "App" /\ c \in active
    /\ inTxn[c]
    /\ inTxn' = [inTxn EXCEPT ![c] = FALSE]
    /\ message' = Msg("swipe_error", 0)
    /\ UNCHANGED <<otherVars, variant, active, pendingPremium, now, store, userStatus, snap, isLoading,
                   showLimitModal, currentProfile, pendingReset, pendingCreate, nCalls,
                   allowedInWindow, windowBase, pendingSwipe, caller>>

\* The fields handleGoPremium's updateDoc writes.
App_premiumDoc(d) == [d EXCEPT !.isPremium = TRUE, !.swipeCount = 0]

\* handleGoPremium: updateDoc rejects when the document does not exist.
App_handleGoPremium(c) ==
    /\ variant = "App" /\ c \in active
    /\ IF store.exists
       THEN /\ store' = App_premiumDoc(store)
            /\ message' = Msg("premium_on", 0)
            /\ WindowRestart
       ELSE /\ message' = Msg("premium_error", 0)
            /\ WindowSame
            /\ UNCHANGED store
    /\ UNCHANGED <<otherVars, variant, active, pendingPremium, now, userStatus, snap, isLoading, showLimitModal,
                   currentProfile, inTxn, pendingReset, pendingCreate, nCalls,
                   pendingSwipe, caller>>

\* LimitModal's onClose.
App_closeModal(c) ==
    /\ variant = "App" /\ c \in active
    /\ showLimitModal[c]
    /\ showLimitModal' = [showLimitModal EXCEPT ![c] = FALSE]
    /\ UNCHANGED <<otherVars, variant, active, pendingPremium, now, store, userStatus, snap, isLoading, message,
                   currentProfile, inTxn, pendingReset, pendingCreate, nCalls,
                   allowedInWindow, windowBase, pendingSwipe, caller>>

\* Time passes.
Tick ==
    /\ now < StartTime + MaxTicks * HalfDay
    /\ now' = now + HalfDay
    /\ UNCHANGED <<otherVars, variant, active, pendingPremium, store, userStatus, snap, isLoading, showLimitModal,
                   message, currentProfile, inTxn, pendingReset, pendingCreate, nCalls,
                   allowedInWindow, windowBase, pendingSwipe, caller>>

\* The documents a starting client can find: none (a new user), or that of a
\* user who swiped DAILY_LIMIT - 1 or DAILY_LIMIT times, the last time the
\* evening before.
App_InitDocs ==
    {NoDoc,
     Doc(DAILY_LIMIT - 1, Yesterday, FALSE),
     Doc(DAILY_LIMIT, Yesterday, FALSE)}

\* User ids are strings, modelled as sequences of UTF-16 code units.
UA == <<65>>
UB == <<66>>
UC == <<67>>
Users == {UA, UB, UC}
NoId == <<>>
Pairs == Users \X Users
\* A document of users/{u}/matches.
MatchDoc(id, partnerId, timestamp) ==
    [id |-> id, partnerId |-> partnerId, timestamp |-> timestamp]

\* The initial values of the matchmaking state: no likes, no matches.
MatchIdle ==
    /\ owner = [c \in Clients |-> UA]
    /\ publicLikes = [pr \in Pairs |-> 0]
    /\ privateLikes = [pr \in Pairs |-> "none"]
    /\ metadata = [u \in Users |-> NoDoc]
    /\ profiles = [c \in Clients |-> <<>>]
    /\ matches = [u \in Users |-> {}]
    /\ pc = [c \in Clients |-> "idle"]
    /\ act = [c \in Clients |-> "none"]
    /\ matchNotification = [c \in Clients |-> NoId]
    /\ matchesList = [c \in Clients |-> <<>>]
    /\ nFail = 0
    /\ reported = [c \in Clients |-> "none"]

ChatIdle ==
    /\ chats = {}
    /\ pendingChat = [c \in Clients |-> {}]
    /\ isMatchModalOpen = [c \in Clients |-> FALSE]
    /\ newChatId = [c \in Clients |-> NoId]
    /\ activeTab = [c \in Clients |-> "match"]
    /\ selectedChatId = [c \in Clients |-> NoId]

\* A program that is not running has no state.
NotRunning == "off"

MatchOff ==
    /\ owner = NotRunning /\ publicLikes = NotRunning /\ privateLikes = NotRunning
    /\ matches = NotRunning /\ pc = NotRunning /\ act = NotRunning
    /\ matchNotification = NotRunning /\ matchesList = NotRunning
    /\ metadata = NotRunning /\ profiles = NotRunning /\ nFail = NotRunning
    /\ reported = NotRunning

ChatOff ==
    /\ chats = NotRunning /\ pendingChat = NotRunning /\ isMatchModalOpen = NotRunning
    /\ newChatId = NotRunning /\ activeTab = NotRunning /\ selectedChatId = NotRunning

IdIdle ==
    /\ argA = NoId
    /\ argB = NoId
    /\ result = NoId

HistIdle ==
    /\ indexAtCall = [c \in Clients |-> 0]

MsgOff ==
    /\ messages = NotRunning /\ pendingSend = NotRunning
    /\ nSent = NotRunning /\ sent = NotRunning

ModalOff == modal = NotRunning

FetchOff == fetch = NotRunning

RestOff == MsgOff /\ ModalOff /\ FetchOff

\* The clients of a user who is signed in.
AuthDone ==
    /\ sessionUserId = [c \in Clients |-> UA]

QuotaIdle ==
    /\ now = StartTime
    /\ store = NoDoc
    /\ userStatus = [c \in Clients |-> INITIAL_USER_STATUS]
    /\ snap = [c \in Clients |-> "none"]
    /\ isLoading = [c \in Clients |-> FALSE]
    /\ showLimitModal = [c \in Clients |-> FALSE]
    /\ message = NoMsg
    /\ currentProfile = [c \in Clients |-> 0]
    /\ inTxn = [c \in Clients |-> FALSE]
    /\ pendingReset = [c \in Clients |-> NoDate]
    /\ pendingCreate = [c \in Clients |-> NoDate]
    /\ pendingSwipe = [c \in Clients |-> NoWrite]
    /\ pendingPremium = [c \in Clients |-> FALSE]
    /\ nCalls = 0
    /\ caller = 0
    /\ allowedInWindow = 0
    /\ windowBase = 0

\* The screen's state when its clients mount.
InitScreen ==
    /\ now = StartTime
    /\ snap = [c \in Clients |-> "none"]
    /\ showLimitModal = [c \in Clients |-> FALSE]
    /\ message = NoMsg
    /\ currentProfile = [c \in Clients |-> 0]
    /\ inTxn = [c \in Clients |-> FALSE]
    /\ pendingReset = [c \in Clients |-> NoDate]
    /\ pendingCreate = [c \in Clients |-> NoDate]
    /\ nCalls = 0
    /\ caller = 0
    /\ pendingSwipe = [c \in Clients |-> NoWrite]
    /\ pendingPremium = [c \in Clients |-> FALSE]
    /\ allowedInWindow = 0

InitClients ==
    /\ MatchOff /\ ChatOff /\ IdIdle /\ HistIdle /\ AuthDone /\ RestOff
    /\ InitScreen

InitApp ==
    /\ variant = "App"
    /\ active = Clients
    /\ InitClients
    /\ store \in App_InitDocs
    /\ windowBase = store.swipeCount
    /\ userStatus = [c \in Clients |-> INITIAL_USER_STATUS]
    /\ isLoading = [c \in Clients |-> TRUE]

NextApp ==
    \/ \E c \in Clients : App_onSnapshot(c)
    \/ \E c \in Clients : App_createCommit(c)
    \/ \E c \in Clients : App_createFail(c)
    \/ \E c \in Clients : App_resetCommit(c)
    \/ \E c \in Clients : App_resetFail(c)
    \/ \E c \in Clients : App_handleSwipe(c)
    \/ \E c \in Clients : App_swipeCommit(c)
    \/ \E c \in Clients : App_swipeFail(c)
    \/ \E c \in Clients : App_handleGoPremium(c)
    \/ \E c \in Clients : App_closeModal(c)
    \/ Tick

SpecApp == InitApp /\ [][NextApp]_vars

\* ------------------------------------------------------- App, one client
\* A new user on one client who swipes again only after the previous swipe
\* is done and its snapshot has arrived.

\* The client's React state shows the stored document.
Synced(c) == store.exists /\ snap[c] = "doc" /\ userStatus[c] = DocStatus(store)

Seq_handleSwipe(c) == Synced(c) /\ App_handleSwipe(c)

InitSeq ==
    /\ variant = "App"
    /\ active = {1}
    /\ InitClients
    /\ store = NoDoc
    /\ windowBase = 0
    /\ userStatus = [c \in Clients |-> INITIAL_USER_STATUS]
    /\ isLoading = [c \in Clients |-> TRUE]

NextSeq ==
    \/ \E c \in Clients : App_onSnapshot(c)
    \/ \E c \in Clients : App_createCommit(c)
    \/ \E c \in Clients : Seq_handleSwipe(c)
    \/ \E c \in Clients : App_swipeCommit(c)

SpecSeq == InitSeq /\ [][NextSeq]_vars

\* ===================================================================== DSS
\* src/unnamed/part_002: DatingSwipeScreen.  The counter is written with
\* updateDoc from the client's React state swipeData; the reset is by
\* calendar day.

\* The calendar day of an instant, as Date.toDateString() tells days apart
\* (a fixed time zone whose midnights are the multiples of a day).
DayOf(t) == t \div MILLISECONDS_IN_DAY

\* const isNewDay = (lastResetDate) => ...
isNewDay(lastResetDate) ==
    IF lastResetDate = NoDate THEN TRUE
    ELSE DayOf(now) # DayOf(lastResetDate)

\* The test of the daily reset effect: swipeData.lastReset && isNewDay(...).
DSS_shouldReset(st) == st.windowStart # NoDate /\ isNewDay(st.windowStart)

\* useState({count: 0, isPremium: false, lastReset: null})
DSS_initialSwipeData == Status(0, NoDate, FALSE)

\* Mutant of DSS_canSwipe: a swipe is let through at the limit too.
DSS_canSwipe_atLimit(c) ==
    userStatus[c].isPremium \/ userStatus[c].swipeCount <= DAILY_SWIPE_LIMIT

\* canSwipe of handleSwipe.
DSS_canSwipe(c) == userStatus[c].isPremium \/ userStatus[c].swipeCount < DAILY_SWIPE_LIMIT

\* The value handleSwipe writes to status.swipesToday.
DSS_newCount(c) == userStatus[c].swipeCount + 1

\* onSnapshot callback, followed by the daily reset effect that the new
\* swipeData.lastReset triggers.
DSS_onSnapshot(c) ==
    /\ variant = "DSS" /\ c \in active
    /\ IF store.exists
       THEN /\ snap[c] # "doc" \/ DocStatus(store) # userStatus[c]
            /\ DSS_shouldReset(DocStatus(store)) => pendingReset[c] = NoDate
            /\ userStatus' = [userStatus EXCEPT ![c] = DocStatus(store)]
            /\ snap' = [snap EXCEPT ![c] = "doc"]
            /\ pendingReset' = IF DSS_shouldReset(DocStatus(store))
                               THEN [pendingReset EXCEPT ![c] = now]
                               ELSE pendingReset
            /\ UNCHANGED pendingCreate
       ELSE /\ snap[c] = "none"
            /\ snap' = [snap EXCEPT ![c] = "absent"]
            /\ pendingCreate' = [pendingCreate EXCEPT ![c] = now]
            /\ UNCHANGED <<userStatus, pendingReset>>
    /\ UNCHANGED <<otherVars, variant, active, pendingPremium, now, store, isLoading, showLimitModal, message,
                   currentProfile, inTxn, pendingSwipe, nCalls, caller, allowedInWindow,
                   windowBase>>

\* The listener's setDoc({status: {swipesToday: 0, isPremium: false,
\* lastResetDate: new Date()}}, {merge: true}) lands.
DSS_createCommit(c) ==
    /\ variant = "DSS" /\ c \in active
    /\ pendingCreate[c] # NoDate
    /\ store' = Doc(0, pendingCreate[c], FALSE)
    /\ pendingCreate' = [pendingCreate EXCEPT ![c] = NoDate]
    /\ WindowRestart
    /\ UNCHANGED <<otherVars, variant, active, pendingPremium, now, userStatus, snap, isLoading, showLimitModal,
                   message, currentProfile, inTxn, pendingReset, pendingSwipe, nCalls,
                   caller>>

\* The reset effect's updateDoc lands; it is rejected when there is no document.
DSS_resetCommit(c) ==
    /\ variant = "DSS" /\ c \in active
    /\ pendingReset[c] # NoDate
    /\ store.exists
    /\ store' = [store EXCEPT !.swipeCount = 0, !.windowStart = pendingReset[c]]
    /\ pendingReset' = [pendingReset EXCEPT ![c] = NoDate]
    /\ WindowRestart
    /\ UNCHANGED <<otherVars, variant, active, pendingPremium, now, userStatus, snap, isLoading, showLimitModal,
                   message, currentProfile, inTxn, pendingCreate, pendingSwipe, nCalls,
                   caller>>

\* handleSwipe up to its await of updateDoc.
DSS_handleSwipe(c) ==
    /\ variant = "DSS" /\ c \in active
    /\ pendingSwipe[c] = NoWrite
    /\ nCalls < Budget
    /\ nCalls' = nCalls + 1
    /\ caller' = c
    /\ IF ~DSS_canSwipe(c)
       THEN /\ showLimitModal' = [showLimitModal EXCEPT ![c] = TRUE]
            /\ WindowSame
            /\ UNCHANGED <<message, currentProfile, pendingSwipe, indexAtCall>>
       ELSE /\ message' = Msg("swiped", 0)
            /\ indexAtCall' = [indexAtCall EXCEPT ![c] = currentProfile[c]]
            /\ currentProfile' = [currentProfile EXCEPT ![c] = @ + 1]
            /\ IF userStatus[c].isPremium
               THEN /\ WindowSame
                    /\ UNCHANGED pendingSwipe
               ELSE /\ pendingSwipe' = [pendingSwipe EXCEPT ![c] =
                            [val |-> DSS_newCount(c), ws |-> userStatus[c].windowStart]]
                    /\ WindowCounted
            /\ UNCHANGED showLimitModal
    /\ UNCHANGED <<matchVars, chatVars, idVars, restVars, variant, active, pendingPremium, now, store, userStatus, snap, isLoading, inTxn,
                   pendingReset, pendingCreate>>

\* handleSwipe's updateDoc({'status.swipesToday': swipeData.count + 1}) lands,
\* or is rejected because there is no document.
DSS_swipeCommit(c) ==
    /\ variant = "DSS" /\ c \in active
    /\ pendingSwipe[c] # NoWrite
    /\ pendingSwipe' = [pendingSwipe EXCEPT ![c] = NoWrite]
    /\ IF store.exists
       THEN /\ store' = [store EXCEPT !.swipeCount = pendingSwipe[c].val]
            /\ UNCHANGED message
       ELSE /\ message' = Msg("swipe_error", 0)
            /\ UNCHANGED store
    /\ UNCHANGED <<otherVars, variant, active, pendingPremium, now, userStatus, snap, isLoading, showLimitModal,
                   currentProfile, inTxn, pendingReset, pendingCreate, nCalls, caller,
                   allowedInWindow, windowBase>>

\* The updateDoc of handleSwipe rejects for another reason (network,
\* permission): the catch block replaces the message, nothing else changes.
DSS_swipeFail(c) ==
    /\ variant = "DSS" /\ c \in active
    /\ pendingSwipe[c] # NoWrite
    /\ store.exists
    /\ pendingSwipe' = [pendingSwipe EXCEPT ![c] = NoWrite]
    /\ message' = Msg("swipe_error", 0)
    /\ UNCHANGED <<otherVars, variant, active, pendingPremium, now, store, userStatus, snap,
                   isLoading, showLimitModal, currentProfile, inTxn, pendingReset,
                   pendingCreate, nCalls, caller, allowedInWindow, windowBase>>

\* The status handleMintOnBase writes with setDoc(..., {merge: true}).
DSS_premiumDoc(d) == Doc(0, now, TRUE)

\* handleMintOnBase: the simulated mint and its setDoc.  It is the onMint of
\* the UpgradeModal, which is rendered only while showModal is true.
DSS_handleMintOnBase(c) ==
    /\ variant = "DSS" /\ c \in active
    /\ showLimitModal[c]
    /\ store' = DSS_premiumDoc(store)
    /\ showLimitModal' = [showLimitModal EXCEPT ![c] = FALSE]
    /\ message' = Msg("premium_on", 0)
    /\ WindowRestart
    /\ UNCHANGED <<otherVars, variant, active, pendingPremium, now, userStatus, snap, isLoading, currentProfile,
                   inTxn, pendingReset, pendingCreate, pendingSwipe, nCalls, caller>>

\* closeModal.
DSS_closeModal(c) ==
    /\ variant = "DSS" /\ c \in active
    /\ showLimitModal[c]
    /\ showLimitModal' = [showLimitModal EXCEPT ![c] = FALSE]
    /\ UNCHANGED <<otherVars, variant, active, pendingPremium, now, store, userStatus, snap, isLoading, message,
                   currentProfile, inTxn, pendingReset, pendingCreate, pendingSwipe,
                   nCalls, caller, allowedInWindow, windowBase>>

\* The documents a starting client can find: none, that of a user who swiped
\* DAILY_SWIPE_LIMIT - 2 times today, or that of a user who used up the
\* limit the evening before.
DSS_InitDocs ==
    {NoDoc,
     Doc(DAILY_SWIPE_LIMIT - 2, StartTime, FALSE),
     Doc(DAILY_SWIPE_LIMIT, Yesterday, FALSE)}

InitDSS ==
    /\ variant = "DSS"
    /\ active = Clients
    /\ InitClients
    /\ store \in DSS_InitDocs
    /\ windowBase = store.swipeCount
    /\ userStatus = [c \in Clients |-> DSS_initialSwipeData]
    /\ isLoading = [c \in Clients |-> FALSE]

NextDSS ==
    \/ \E c \in Clients : DSS_onSnapshot(c)
    \/ \E c \in Clients : DSS_createCommit(c)
    \/ \E c \in Clients : DSS_resetCommit(c)
    \/ \E c \in Clients : DSS_handleSwipe(c)
    \/ \E c \in Clients : DSS_swipeCommit(c)
    \/ \E c \in Clients : DSS_handleMintOnBase(c)
    \/ \E c \in Clients : DSS_closeModal(c)
    \/ Tick

SpecDSS == InitDSS /\ [][NextDSS]_vars

\* The swipe screen with rejected writes: besides the updateDoc on a missing
\* document, any updateDoc of handleSwipe may reject.
NextDSSFail ==
    \/ NextDSS
    \/ \E c \in Clients : DSS_swipeFail(c)

SpecDSSFail == InitDSS /\ [][NextDSSFail]_vars

\* ====================================================================== BM
\* src/src/Basematch-new.jsx: App.  The status carries the day of the last
\* reset as a date string; the counter is written from React state.

\* The instant a date string stands for: the start of its (UTC) day.
DateString(t) == (t \div MILLISECONDS_IN_DAY) * MILLISECONDS_IN_DAY

\* getTodayDateString()
getTodayDateString == DateString(now)

\* initialStatus, and the initial React state userStatus: both are built when
\* the component mounts.
initialStatus == Status(49, DateString(StartTime), FALSE)

\* The listener's data: the document's status, or initialStatus.
BM_data == IF store.exists THEN DocStatus(store) ELSE initialStatus

\* The listener's reset test.
BM_needsReset(data) == data.windowStart # getTodayDateString

\* The status after the listener's reset logic.
BM_afterReset(data) ==
    IF BM_needsReset(data)
    THEN [data EXCEPT !.swipeCount = 0, !.windowStart = getTodayDateString]
    ELSE data

\* swipesRemaining as computed on render.
BM_swipesRemaining(c) ==
    (IF userStatus[c].isPremium THEN UNLIMITED_SWIPE_SIMULATION ELSE DAILY_SWIPE_LIMIT) - userStatus[c].swipeCount

\* onSnapshot callback: reset logic with its updateDoc, setUserStatus, and the
\* setDoc of initialStatus when there is no document.
BM_onSnapshot(c) ==
    /\ variant = "BM" /\ c \in active
    /\ snap[c] # "error"
    /\ IF store.exists
       THEN snap[c] # "doc" \/ DocStatus(store) # userStatus[c]
       ELSE snap[c] = "none"
    /\ BM_needsReset(BM_data) => pendingReset[c] = NoDate
    /\ userStatus' = [userStatus EXCEPT ![c] = BM_afterReset(BM_data)]
    /\ snap' = [snap EXCEPT ![c] = IF store.exists THEN "doc" ELSE "absent"]
    /\ IF BM_needsReset(BM_data)
       THEN /\ pendingReset' = [pendingReset EXCEPT ![c] = getTodayDateString]
            /\ pendingPremium' = [pendingPremium EXCEPT ![c] = BM_data.isPremium]
       ELSE UNCHANGED <<pendingReset, pendingPremium>>
    /\ pendingCreate' = IF store.exists THEN pendingCreate
                        ELSE [pendingCreate EXCEPT ![c] = now]
    /\ UNCHANGED <<otherVars, variant, active, now, store, isLoading, showLimitModal, message,
                   currentProfile, inTxn, pendingSwipe, nCalls, caller, allowedInWindow,
                   windowBase>>

\* The listener's error callback: the listener ends, and the client falls
\* back to initialStatus.
BM_onSnapshotError(c) ==
    /\ variant = "BM" /\ c \in active
    /\ snap[c] # "error"
    /\ snap' = [snap EXCEPT ![c] = "error"]
    /\ userStatus' = [userStatus EXCEPT ![c] = initialStatus]
    /\ UNCHANGED <<otherVars, variant, active, now, store, isLoading, showLimitModal, message,
                   currentProfile, inTxn, pendingReset, pendingCreate, pendingSwipe,
                   pendingPremium, nCalls, caller, allowedInWindow, windowBase>>

\* The listener's setDoc(docRef, {status: initialStatus}) lands: it replaces
\* the document.
BM_createCommit(c) ==
    /\ variant = "BM" /\ c \in active
    /\ pendingCreate[c] # NoDate
    /\ store' = Doc(initialStatus.swipeCount, initialStatus.windowStart, FALSE)
    /\ pendingCreate' = [pendingCreate EXCEPT ![c] = NoDate]
    /\ allowedInWindow' = 0
    /\ windowBase' = initialStatus.swipeCount
    /\ UNCHANGED <<otherVars, variant, active, now, userStatus, snap, isLoading, showLimitModal,
                   message, currentProfile, inTxn, pendingReset, pendingSwipe,
                   pendingPremium, nCalls, caller>>

\* The listener's updateDoc(docRef, {'status': data}) lands, or is rejected
\* because there is no document (the rejection is only logged).
BM_resetCommit(c) ==
    /\ variant = "BM" /\ c \in active
    /\ pendingReset[c] # NoDate
    /\ pendingReset' = [pendingReset EXCEPT ![c] = NoDate]
    /\ IF store.exists
       THEN /\ store' = Doc(0, pendingReset[c], pendingPremium[c])
            /\ WindowRestart
       ELSE /\ WindowSame
            /\ UNCHANGED store
    /\ UNCHANGED <<otherVars, variant, active, now, userStatus, snap, isLoading, showLimitModal,
                   message, currentProfile, inTxn, pendingCreate, pendingSwipe,
                   pendingPremium, nCalls, caller>>

\* handleSwipe up to its await of updateDoc; its blocked branch is
\* handleUpgrade('limit_reached'), which opens the modal.
BM_handleSwipe(c) ==
    /\ variant = "BM" /\ c \in active
    /\ pendingSwipe[c] = NoWrite
    /\ nCalls < Budget
    /\ nCalls' = nCalls + 1
    /\ caller' = c
    /\ IF ~userStatus[c].isPremium /\ BM_swipesRemaining(c) <= 0
       THEN /\ showLimitModal' = [showLimitModal EXCEPT ![c] = TRUE]
            /\ WindowSame
            /\ UNCHANGED pendingSwipe
       ELSE /\ pendingSwipe' = [pendingSwipe EXCEPT ![c] =
                    [val |-> IF userStatus[c].isPremium
                             THEN userStatus[c].swipeCount
                             ELSE userStatus[c].swipeCount + 1,
                     ws |-> userStatus[c].windowStart]]
            /\ IF userStatus[c].isPremium THEN WindowSame ELSE WindowCounted
            /\ UNCHANGED showLimitModal
    /\ UNCHANGED <<otherVars, variant, active, now, store, userStatus, snap, isLoading, message,
                   currentProfile, inTxn, pendingReset, pendingCreate, pendingPremium>>

\* handleSwipe's updateDoc({'status.swipesToday': newSwipes}) lands and the
\* next profile is shown, or it is rejected and the catch branch logs it.
BM_swipeCommit(c) ==
    /\ variant = "BM" /\ c \in active
    /\ pendingSwipe[c] # NoWrite
    /\ pendingSwipe' = [pendingSwipe EXCEPT ![c] = NoWrite]
    /\ IF store.exists
       THEN /\ store' = [store EXCEPT !.swipeCount = pendingSwipe[c].val]
            /\ currentProfile' = [currentProfile EXCEPT ![c] = @ + 1]
       ELSE UNCHANGED <<store, currentProfile>>
    /\ UNCHANGED <<otherVars, variant, active, now, userStatus, snap, isLoading, showLimitModal,
                   message, inTxn, pendingReset, pendingCreate, pendingPremium, nCalls,
                   caller, allowedInWindow, windowBase>>

\* The status handleMintNFT's updateDoc(docRef, {'status': premiumUpdates})
\* leaves: premiumUpdates has no lastResetDate.
BM_premiumDoc(d) == Doc(0, NoDate, TRUE)

\* handleMintNFT, the onMintNFT of the modal: the write (a rejection is only
\* logged), the local status, the modal closed, the alert.
BM_handleMintNFT(c) ==
    /\ variant = "BM" /\ c \in active
    /\ showLimitModal[c]
    /\ IF store.exists
       THEN /\ store' = BM_premiumDoc(store)
            /\ WindowRestart
       ELSE /\ WindowSame
            /\ UNCHANGED store
    /\ userStatus' = [userStatus EXCEPT ![c] = [@ EXCEPT !.isPremium = TRUE,
                                                         !.swipeCount = 0]]
    /\ showLimitModal' = [showLimitModal EXCEPT ![c] = FALSE]
    /\ message' = Msg("premium_on", 0)
    /\ UNCHANGED <<otherVars, variant, active, now, snap, isLoading, currentProfile, inTxn,
                   pendingReset, pendingCreate, pendingSwipe, pendingPremium, nCalls,
                   caller>>

\* The modal's onClose.
BM_closeModal(c) ==
    /\ variant = "BM" /\ c \in active
    /\ showLimitModal[c]
    /\ showLimitModal' = [showLimitModal EXCEPT ![c] = FALSE]
    /\ UNCHANGED <<otherVars, variant, active, now, store, userStatus, snap, isLoading, message,
                   currentProfile, inTxn, pendingReset, pendingCreate, pendingSwipe,
                   pendingPremium, nCalls, caller, allowedInWindow, windowBase>>

\* The documents a starting client can find: none, or that of a user who used
\* up the limit the day before.
BM_InitDocs ==
    {NoDoc,
     Doc(DAILY_SWIPE_LIMIT, DateString(StartTime) - MILLISECONDS_IN_DAY, FALSE)}

InitBM ==
    /\ variant = "BM"
    /\ active = Clients
    /\ InitClients
    /\ store \in BM_InitDocs
    /\ windowBase = store.swipeCount
    /\ userStatus = [c \in Clients |-> initialStatus]
    /\ isLoading = [c \in Clients |-> FALSE]

NextBM ==
    \/ \E c \in Clients : BM_onSnapshot(c)
    \/ \E c \in Clients : BM_onSnapshotError(c)
    \/ \E c \in Clients : BM_createCommit(c)
    \/ \E c \in Clients : BM_resetCommit(c)
    \/ \E c \in Clients : BM_handleSwipe(c)
    \/ \E c \in Clients : BM_swipeCommit(c)
    \/ \E c \in Clients : BM_handleMintNFT(c)
    \/ \E c \in Clients : BM_closeModal(c)
    \/ Tick

SpecBM == InitBM /\ [][NextBM]_vars

\* ======================================================= App and DSS together
\* Either the transactional client or the swipe screen runs.
InitSwipe == InitApp \/ InitDSS

NextSwipe == NextApp \/ NextDSS

SpecSwipe == InitSwipe /\ [][NextSwipe]_vars

\* The limit of the variant that runs.
Limit == IF variant = "App" THEN DAILY_LIMIT ELSE DAILY_SWIPE_LIMIT

\* A step in which client c calls handleSwipe.
SwipeCall(c) == nCalls' = nCalls + 1 /\ caller' = c

\* A step in which the counter write that client c's handleSwipe awaits lands
\* on an existing document.
SwipeWrite(c) == pendingSwipe[c] # NoWrite /\ pendingSwipe'[c] = NoWrite /\ store.exists

\* A step in which App's handleSwipe transaction of client c ends.
TxnEnd(c) == inTxn[c] /\ ~inTxn'[c]

\* A step of App's handleGoPremium whose updateDoc is accepted.
UpgradeStep ==
    /\ message'.kind = "premium_on"
    /\ UNCHANGED <<now, userStatus, snap, isLoading, showLimitModal, inTxn,
                   pendingReset, pendingCreate, nCalls>>

\* ================================================================== claims

\* C1: quota monotonicity (App, SpecApp).  Within one quota window the number
\* of counted swipes of a non-premium user, from any interleaving of
\* handleSwipe calls of the clients sharing the document, never exceeds
\* DAILY_LIMIT: the swipes counted before the clients started plus those
\* counted since stay within the limit, so of two callers that both read
\* DAILY_LIMIT - 1 at most one is counted.
C1_QuotaMonotonic == windowBase + allowedInWindow <= DAILY_LIMIT

\* C1 witness: two clients both saw DAILY_LIMIT - 1 and both started a swipe;
\* one transaction has committed the last swipe, the other is still to run.
C1_Witness ==
    /\ variant = "App"
    /\ store.swipeCount = DAILY_LIMIT
    /\ windowBase + allowedInWindow = DAILY_LIMIT
    /\ \E c \in Clients : inTxn[c]
    /\ \A c \in Clients :
          /\ ~userStatus[c].isPremium
          /\ userStatus[c].swipeCount = DAILY_LIMIT - 1

\* C2: no lost counter update (DSS, SpecDSS).  A counted swipe whose client
\* read the status of the current window adds exactly one to the stored
\* counter when its write lands, whatever other swipes were counted since
\* the client read the counter.
C2_NoLostUpdate ==
    [][\A c \in Clients :
          (SwipeWrite(c) /\ ~store.isPremium
             /\ pendingSwipe[c].ws = store.windowStart
             /\ store.swipeCount >= pendingSwipe[c].val - 1)
              => store'.swipeCount = store.swipeCount + 1]_vars

\* C3: limit boundary (App, SpecSeq).  A new user's sequential swipes: each
\* of the first DAILY_LIMIT calls is counted, the message after the k-th
\* shows DAILY_LIMIT - k swipes remaining (the DAILY_LIMIT-th shows the
\* limit reached and the rendered swipesRemaining is 0), and call
\* DAILY_LIMIT + 1 is not counted and leaves 0 remaining.
C3_LimitBoundary ==
    LET busy == IF inTxn[1] THEN 1 ELSE 0 IN
    /\ nCalls <= DAILY_LIMIT => nCalls = allowedInWindow + busy
    /\ nCalls = DAILY_LIMIT + 1 =>
          /\ allowedInWindow = DAILY_LIMIT
          /\ busy = 0
          /\ store.swipeCount = DAILY_LIMIT
          /\ swipesRemaining(1) = 0
    /\ message.kind = "success" =>
          /\ allowedInWindow < DAILY_LIMIT
          /\ message.n = DAILY_LIMIT - allowedInWindow
    /\ message.kind = "success_limit" => allowedInWindow = DAILY_LIMIT
    /\ message.kind \in {"none", "success", "success_limit"}
    /\ (busy = 0 /\ allowedInWindow > 0) => message.kind \in {"success", "success_limit"}
    /\ Synced(1) => swipesRemaining(1) = DAILY_LIMIT - allowedInWindow

\* C3 witness: the call after the DAILY_LIMIT-th has been made and blocked.
C3_Witness ==
    /\ nCalls = DAILY_LIMIT + 1
    /\ allowedInWindow = DAILY_LIMIT
    /\ message.kind = "success_limit"

\* C4: fresh user status (BM, SpecBM).  Until its listener has seen a
\* document a client works on a status with a counter of 0, and the document
\* created for a user who had none has a counter of 0 and the time (the day)
\* of its creation as window start.
C4_FreshUserStatus ==
    /\ [](\A c \in Clients :
             (snap[c] # "doc" /\ ~userStatus[c].isPremium) => userStatus[c].swipeCount = 0)
    /\ [][(~store.exists /\ store'.exists) =>
             /\ store'.swipeCount = 0
             /\ \E c \in Clients :
                   /\ pendingCreate[c] # NoDate
                   /\ store'.windowStart \in {pendingCreate[c], DateString(pendingCreate[c])}]_vars

\* C5: rollover before consume (App, SpecApp).  A handleSwipe call of a
\* client that holds the stored status of a non-premium user, made more than
\* 24 hours after the window start, passes the limit check and goes on to
\* its transaction, and the transaction writes the first swipe of a new
\* window.
C5_RolloverBeforeConsume ==
    [][\A c \in Clients :
          /\ (SwipeCall(c) /\ Synced(c) /\ ~store.isPremium
                /\ now - store.windowStart > MILLISECONDS_IN_DAY) => inTxn'[c]
          /\ (TxnEnd(c) /\ store' # store /\ ~store.isPremium
                /\ now - store.windowStart > MILLISECONDS_IN_DAY)
                => store'.swipeCount = 1]_vars

\* C6: rollover is not lost (DSS, SpecDSS).  When the write of a counted
\* swipe lands after a rollover that its client had not seen, it does not
\* write back the old count plus one: it adds one to the counter of the new
\* window.
C6_RolloverNotLost ==
    [][\A c \in Clients :
          (SwipeWrite(c) /\ ~store.isPremium
             /\ pendingSwipe[c].ws # NoDate /\ pendingSwipe[c].ws # store.windowStart)
              => store'.swipeCount = store.swipeCount + 1]_vars

\* C7: rolling 24-hour window (DSS, SpecDSS).  A client decides to reset the
\* counter only when at least 24 hours have passed since the window start.
C7_RollingWindow ==
    [][\A c \in Clients :
          (pendingReset[c] = NoDate /\ pendingReset'[c] # NoDate)
              => now - store.windowStart >= MILLISECONDS_IN_DAY]_vars

C10_PremiumUpgrade ==
    [][UpgradeStep => store' = Doc(0, now, TRUE)]_vars

\* C11: premium is irreversible (BM, SpecBM).  No step takes the stored
\* status, or the status a client shows, from premium back to not premium.
C11_PremiumIrreversible ==
    [][/\ (store.exists /\ store.isPremium) => store'.isPremium
       /\ \A c \in Clients : userStatus[c].isPremium => userStatus'[c].isPremium]_vars

\* C12: counter range (App and DSS, SpecSwipe).  The stored swipe counter is
\* a natural number, and while the stored status is not premium it is at
\* most the daily limit.
C12_CounterRange ==
    /\ store.swipeCount \in Nat
    /\ ~store.isPremium => store.swipeCount <= Limit

\* C12 witness: a counted swipe has brought the stored counter of a user who
\* is not premium to the limit.
C12_Witness ==
    /\ store.exists
    /\ ~store.isPremium
    /\ store.swipeCount = Limit
    /\ allowedInWindow > 0
    /\ \A c \in Clients : ~inTxn[c] /\ pendingSwipe[c] = NoWrite

-----------------------------------------------------------------------------
\* The chat application (src/unnamed/part_000, lines 457 on): the match screen
\* shows the profiles of users/{fid}/profiles one at a time.

\* The profiles loaded by the profiles listener.
Chat_profiles == <<UB, UC>>

\* const currentProfile = profiles[currentProfileIndex % profiles.length]
Chat_currentProfile(c) == Chat_profiles[(currentProfile[c] % Len(Chat_profiles)) + 1]

\* The message { sender: 'system', ... } that handleLike stores; the messages
\* of the user are numbered from 1.
SystemMessage == 0

\* handleLike: starts the setDoc of the chat document and moves to the next profile.
Chat_handleLike(c) ==
    /\ variant = "Chat" /\ c \in active
    /\ activeTab[c] = "match"
    /\ pendingChat' = [pendingChat EXCEPT ![c] = @ \cup {Chat_currentProfile(c)}]
    /\ currentProfile' = [currentProfile EXCEPT ![c] = (@ + 1) % Len(Chat_profiles)]
    /\ UNCHANGED <<matchVars, idVars, histVars, restVars, chats, isMatchModalOpen, newChatId, activeTab,
                   selectedChatId, variant, active, now, store, userStatus, snap, isLoading,
                   showLimitModal, message, inTxn, pendingReset, pendingCreate,
                   pendingSwipe, pendingPremium, nCalls, caller, allowedInWindow,
                   windowBase>>

\* The setDoc of handleLike resolves: the chat document exists, its messages
\* field is the array given (merge replaces a field as a whole), and the
\* .then callback opens the match modal.
Chat_setDocThen(c, p) ==
    /\ variant = "Chat" /\ c \in active
    /\ p \in pendingChat[c]
    /\ pendingChat' = [pendingChat EXCEPT ![c] = @ \ {p}]
    /\ chats' = chats \cup {<<owner[c], p>>}
    /\ newChatId' = [newChatId EXCEPT ![c] = p]
    /\ isMatchModalOpen' = [isMatchModalOpen EXCEPT ![c] = TRUE]
    /\ messages' = [messages EXCEPT ![<<owner[c], p>>] = <<SystemMessage>>]
    /\ UNCHANGED <<matchVars, idVars, histVars, authVars, modalVars, fetchVars,
                   pendingSend, nSent, sent,
                   activeTab, selectedChatId, quotaVars>>

\* The setDoc of handleLike rejects: the .catch callback only logs.
Chat_setDocCatch(c, p) ==
    /\ variant = "Chat" /\ c \in active
    /\ p \in pendingChat[c]
    /\ pendingChat' = [pendingChat EXCEPT ![c] = @ \ {p}]
    /\ UNCHANGED <<matchVars, idVars, histVars, restVars, chats, isMatchModalOpen, newChatId, activeTab,
                   selectedChatId, quotaVars>>

\* handlePass: moves to the next profile.
Chat_handlePass(c) ==
    /\ variant = "Chat" /\ c \in active
    /\ activeTab[c] = "match"
    /\ currentProfile' = [currentProfile EXCEPT ![c] = (@ + 1) % Len(Chat_profiles)]
    /\ UNCHANGED <<otherVars, variant, active, now, store, userStatus, snap, isLoading,
                   showLimitModal, message, inTxn, pendingReset, pendingCreate,
                   pendingSwipe, pendingPremium, nCalls, caller, allowedInWindow,
                   windowBase>>

\* handleGoToChat: a button of the match modal.
Chat_handleGoToChat(c) ==
    /\ variant = "Chat" /\ c \in active
    /\ isMatchModalOpen[c]
    /\ isMatchModalOpen' = [isMatchModalOpen EXCEPT ![c] = FALSE]
    /\ activeTab' = [activeTab EXCEPT ![c] = "chat"]
    /\ selectedChatId' = [selectedChatId EXCEPT
                             ![c] = IF newChatId[c] # NoId THEN newChatId[c] ELSE @]
    /\ UNCHANGED <<matchVars, idVars, histVars, restVars, chats, pendingChat, newChatId, quotaVars>>

\* handleStayOnMatch: the other button of the match modal.
Chat_handleStayOnMatch(c) ==
    /\ variant = "Chat" /\ c \in active
    /\ isMatchModalOpen[c]
    /\ isMatchModalOpen' = [isMatchModalOpen EXCEPT ![c] = FALSE]
    /\ newChatId' = [newChatId EXCEPT ![c] = NoId]
    /\ UNCHANGED <<matchVars, idVars, histVars, restVars, chats, pendingChat, activeTab, selectedChatId,
                   quotaVars>>

\* The navigation bar: setActiveTab.
Chat_setActiveTab(c, t) ==
    /\ variant = "Chat" /\ c \in active
    /\ activeTab[c] # t
    /\ activeTab' = [activeTab EXCEPT ![c] = t]
    /\ UNCHANGED <<matchVars, idVars, histVars, restVars, chats, pendingChat, isMatchModalOpen, newChatId,
                   selectedChatId, quotaVars>>

MaxMsgs == 2

\* handleSendMessage up to its getDoc: the new message is built and the read
\* of the selected chat is issued.
Chat_handleSendMessage(c) ==
    /\ variant = "Chat" /\ c \in active
    /\ activeTab[c] = "chat"
    /\ selectedChatId[c] # NoId
    /\ nSent < MaxMsgs
    /\ nSent' = nSent + 1
    /\ pendingSend' = [pendingSend EXCEPT ![c] = @ \cup
           {[chat |-> <<owner[c], selectedChatId[c]>>, newMessage |-> nSent + 1,
             stage |-> "getDoc", currentMessages |-> <<>>]}]
    /\ UNCHANGED <<matchVars, chatVars, idVars, histVars, authVars, modalVars, fetchVars,
                   messages, sent,
                   quotaVars>>

\* The getDoc resolves: currentMessages is the stored array, and the setDoc
\* of [...currentMessages, newMessage] is issued; nothing is sent when the
\* chat document does not exist.
Chat_sendGetDoc(c) ==
    /\ variant = "Chat" /\ c \in active
    /\ \E s \in pendingSend[c] :
          /\ s \in pendingSend[c] /\ s.stage = "getDoc"
          /\ pendingSend' = [pendingSend EXCEPT ![c] =
                 IF s.chat \in chats
                 THEN (@ \ {s}) \cup {[s EXCEPT !.stage = "setDoc",
                                                !.currentMessages = messages[s.chat]]}
                 ELSE @ \ {s}]
          /\ UNCHANGED <<matchVars, chatVars, idVars, histVars, authVars, modalVars, fetchVars,
                   messages, nSent,
                         sent, quotaVars>>

\* The setDoc resolves: the messages field is replaced by the array built
\* from the earlier read.
Chat_sendSetDoc(c) ==
    /\ variant = "Chat" /\ c \in active
    /\ \E s \in pendingSend[c] :
          /\ s \in pendingSend[c] /\ s.stage = "setDoc"
          /\ pendingSend' = [pendingSend EXCEPT ![c] = @ \ {s}]
          /\ messages' = [messages EXCEPT
                 ![s.chat] = Append(s.currentMessages, s.newMessage)]
          /\ sent' = sent \cup {[chat |-> s.chat, newMessage |-> s.newMessage]}
          /\ UNCHANGED <<matchVars, chatVars, idVars, histVars, authVars, modalVars, fetchVars,
                   nSent, quotaVars>>

\* The getDoc or the setDoc rejects: the catch block only logs.
Chat_sendCatch(c) ==
    /\ variant = "Chat" /\ c \in active
    /\ \E s \in pendingSend[c] :
          /\ s \in pendingSend[c]
          /\ pendingSend' = [pendingSend EXCEPT ![c] = @ \ {s}]
          /\ UNCHANGED <<matchVars, chatVars, idVars, histVars, authVars, modalVars, fetchVars,
                   messages, nSent,
                         sent, quotaVars>>

\* No chat holds a message, nothing is being sent.
MsgIdle ==
    /\ messages = [pr \in Pairs |-> <<>>]
    /\ pendingSend = [c \in Clients |-> {}]
    /\ nSent = 0
    /\ sent = {}

InitChat ==
    /\ variant = "Chat"
    /\ active = {1}
    /\ QuotaIdle /\ MatchIdle /\ ChatIdle /\ IdIdle /\ HistIdle /\ AuthDone /\ MsgIdle
    /\ ModalOff /\ FetchOff

NextChat ==
    \E c \in Clients :
        \/ Chat_handleLike(c)
        \/ \E p \in Users : Chat_setDocThen(c, p)
        \/ \E p \in Users : Chat_setDocCatch(c, p)
        \/ Chat_handlePass(c)
        \/ Chat_handleGoToChat(c)
        \/ Chat_handleStayOnMatch(c)
        \/ \E t \in {"match", "chat"} : Chat_setActiveTab(c, t)
        \/ Chat_handleSendMessage(c)
        \/ Chat_sendGetDoc(c)
        \/ Chat_sendSetDoc(c)
        \/ Chat_sendCatch(c)

SpecChat == InitChat /\ [][NextChat]_vars

\* C13: a match requires the reverse like. Whenever a match has been produced
\* for a user u with a partner p (a match document of u, a match chat of u, or
\* the match modal or match notification shown to u for p), a public like from
\* p to u exists.
C13_MatchNeedsReverseLike ==
    /\ variant = "Chat" =>
          /\ \A ch \in chats : publicLikes[<<ch[2], ch[1]>>] > 0
          /\ \A c \in Clients :
                isMatchModalOpen[c] => publicLikes[<<newChatId[c], owner[c]>>] > 0
    /\ \A u \in Users : \A m \in matches[u] : publicLikes[<<m.partnerId, u>>] > 0
    /\ \A c \in Clients :
          matchNotification[c] # NoId =>
              publicLikes[<<matchNotification[c], owner[c]>>] > 0

-----------------------------------------------------------------------------
\* The match id of checkForMatch (src/unnamed/part_001, lines 903-904):
\* [userId, likedProfileId].sort().join('_').

\* The code unit of '_'.
Underscore == 95

\* a < b in the order of Array.prototype.sort without a comparator: strings
\* are compared code unit by code unit, a proper prefix comes first.
RECURSIVE StringLess(_, _)
StringLess(a, b) ==
    IF b = <<>> THEN FALSE
    ELSE IF a = <<>> THEN TRUE
    ELSE IF Head(a) # Head(b) THEN Head(a) < Head(b)
    ELSE StringLess(Tail(a), Tail(b))

\* [a, b].sort()
sort_identity(a, b) == <<a, b>>
sort(a, b) == IF StringLess(b, a) THEN <<b, a>> ELSE <<a, b>>

\* arr.join('_') of an array of two strings
join(arr) == arr[1] \o <<Underscore>> \o arr[2]

matchId_unsorted(userId, likedProfileId) == join(<<userId, likedProfileId>>)
matchId(userId, likedProfileId) == join(sort(userId, likedProfileId))

-----------------------------------------------------------------------------
\* The matchmaking application (src/unnamed/part_001, lines 690 on). A client
\* is one open page of the application; owner[c] is the uid it is signed in
\* with. userStatus[c].swipeCount is its dailySwipeCount and
\* userStatus[c].isPremium its hasSubscriptionNFT.

MaxFail == 1
MAX_SWIPES_PER_DAY == 50

\* The ids of MOCK_PROFILES that are in play; the users are signed in with the
\* uids of two profiles of opposite gender.
MOCK_PROFILES == <<UA, UB>>

\* isNewDay(lastDate) of part_001: null counts as a new day.
P1_isNewDay(lastDate) ==
    IF lastDate = NoDate THEN TRUE ELSE DayOf(lastDate) # DayOf(now)

\* loadData step 3: the profiles that are not the user and were not swiped.
unwipedProfiles(u) ==
    SelectSeq(MOCK_PROFILES, LAMBDA p : p # u /\ privateLikes[<<u, p>>] = "none")

\* The sequence of the elements of a set of strings, smallest first.
RECURSIVE SeqOf(_)
SeqOf(S) ==
    IF S = {} THEN <<>>
    ELSE LET x == CHOOSE y \in S : \A z \in S \ {y} : StringLess(y, z)
         IN  <<x>> \o SeqOf(S \ {x})

\* loadData: reads the metadata, resets the counter on a new day, loads the
\* profiles not yet swiped and the confirmed matches.
P1_loadData(c) ==
    /\ variant = "P1" /\ c \in active
    /\ pc[c] = "unloaded"
    /\ LET u == owner[c]
           userData == metadata[u]
           reset == P1_isNewDay(userData.windowStart)
           currentSwipeCount == IF reset THEN 0 ELSE userData.swipeCount
       IN  /\ metadata' = IF reset
                          THEN [metadata EXCEPT ![u] = Doc(0, now, userData.isPremium)]
                          ELSE metadata
           /\ userStatus' = [userStatus EXCEPT
                  ![c] = Status(currentSwipeCount, now, userData.isPremium)]
           /\ profiles' = [profiles EXCEPT ![c] = unwipedProfiles(u)]
           /\ matchesList' = [matchesList EXCEPT
                  ![c] = SeqOf({m.id : m \in matches[u]})]
    /\ isLoading' = [isLoading EXCEPT ![c] = FALSE]
    /\ pc' = [pc EXCEPT ![c] = "idle"]
    /\ UNCHANGED <<owner, publicLikes, privateLikes, matches, act, matchNotification,
                   nFail, reported, chatVars, idVars, histVars, restVars, variant, active, now, store, snap,
                   showLimitModal, message, currentProfile, inTxn, pendingReset,
                   pendingCreate, pendingSwipe, pendingPremium, nCalls, caller,
                   allowedInWindow, windowBase>>

\* const currentProfile = profiles[currentProfileIndex]
P1_hasProfile(c) == currentProfile[c] + 1 <= Len(profiles[c])
P1_currentProfile(c) == profiles[c][currentProfile[c] + 1]

isSwipeLimited(c) ==
    userStatus[c].swipeCount >= MAX_SWIPES_PER_DAY /\ ~userStatus[c].isPremium

\* handleSwipe(action) up to its first await: the limit check, the local
\* counter, and the setDoc of the metadata issued.
P1_handleSwipe(c, action) ==
    /\ variant = "P1" /\ c \in active
    /\ pc[c] = "idle" /\ ~isLoading[c]
    /\ P1_hasProfile(c)
    /\ IF isSwipeLimited(c)
       THEN /\ message' = Msg("limit", 0)
            /\ UNCHANGED <<isLoading, userStatus, pendingSwipe, pc, act>>
       ELSE /\ isLoading' = [isLoading EXCEPT ![c] = TRUE]
            /\ userStatus' = [userStatus EXCEPT ![c].swipeCount = @ + 1]
            /\ pendingSwipe' = [pendingSwipe EXCEPT
                   ![c] = [val |-> userStatus[c].swipeCount + 1, ws |-> now]]
            /\ pc' = [pc EXCEPT ![c] = "meta"]
            /\ act' = [act EXCEPT ![c] = action]
            /\ UNCHANGED message
    /\ UNCHANGED <<owner, publicLikes, privateLikes, matches, matchNotification,
                   matchesList, metadata, profiles, nFail, reported, chatVars, idVars, histVars, restVars,
                   variant, active, now, store, snap, showLimitModal, currentProfile,
                   inTxn, pendingReset, pendingCreate, pendingPremium, nCalls, caller,
                   allowedInWindow, windowBase>>

\* The end of handleSwipe's try block and its finally block.
P1_finish(c) ==
    /\ currentProfile' = [currentProfile EXCEPT ![c] = @ + 1]
    /\ isLoading' = [isLoading EXCEPT ![c] = FALSE]
    /\ pendingSwipe' = [pendingSwipe EXCEPT ![c] = NoWrite]
    /\ pc' = [pc EXCEPT ![c] = "idle"]

\* Step 3: the setDoc of the metadata resolves; the setDoc of the private like
\* is issued.
P1_setMetadata(c) ==
    /\ variant = "P1" /\ c \in active
    /\ pc[c] = "meta"
    /\ metadata' = [metadata EXCEPT
           ![owner[c]] = Doc(pendingSwipe[c].val, pendingSwipe[c].ws, @.isPremium)]
    /\ pendingSwipe' = [pendingSwipe EXCEPT ![c].ws = now]
    /\ pc' = [pc EXCEPT ![c] = "priv"]
    /\ UNCHANGED <<owner, publicLikes, privateLikes, matches, act, matchNotification,
                   matchesList, profiles, nFail, reported, chatVars, idVars, histVars, restVars, variant,
                   active, now, store, userStatus, snap, isLoading, showLimitModal,
                   message, currentProfile, inTxn, pendingReset, pendingCreate,
                   pendingPremium, nCalls, caller, allowedInWindow, windowBase>>

\* Step 4: the setDoc of the private like resolves; a like goes on to addDoc
\* the public like, a reject is finished.
P1_setPrivateLike(c) ==
    /\ variant = "P1" /\ c \in active
    /\ pc[c] = "priv"
    /\ privateLikes' = [privateLikes EXCEPT
           ![<<owner[c], P1_currentProfile(c)>>] = act[c]]
    /\ IF act[c] = "like"
       THEN /\ pc' = [pc EXCEPT ![c] = "pub"]
            /\ pendingSwipe' = [pendingSwipe EXCEPT ![c].ws = now]
            /\ UNCHANGED <<currentProfile, isLoading, reported>>
       ELSE /\ P1_finish(c)
            /\ reported' = [reported EXCEPT ![c] = "none"]
    /\ UNCHANGED <<owner, publicLikes, matches, act, matchNotification, matchesList,
                   metadata, profiles, nFail, chatVars, idVars, histVars, restVars, variant, active, now,
                   store, userStatus, snap, showLimitModal, message, inTxn,
                   pendingReset, pendingCreate, pendingPremium, nCalls, caller,
                   allowedInWindow, windowBase>>

\* Step 5: the addDoc of the public like resolves (a new document each time);
\* checkForMatch issues its query.
P1_addPublicLike(c) ==
    /\ variant = "P1" /\ c \in active
    /\ pc[c] = "pub"
    /\ publicLikes' = [publicLikes EXCEPT ![<<owner[c], P1_currentProfile(c)>>] = @ + 1]
    /\ pc' = [pc EXCEPT ![c] = "query"]
    /\ UNCHANGED <<owner, privateLikes, matches, act, matchNotification, matchesList,
                   metadata, profiles, nFail, reported, chatVars, idVars, histVars, restVars, quotaVars>>

\* The query of checkForMatch: the public likes with likerId == likedProfileId
\* and likedId == userId.
reverseLikes_empty(userId, likedProfileId) == 0
reverseLikes(userId, likedProfileId) == publicLikes[<<likedProfileId, userId>>]

\* The getDocs of checkForMatch resolves: an empty snapshot ends the swipe, a
\* non-empty one issues the setDoc of the match.
P1_getDocs(c) ==
    /\ variant = "P1" /\ c \in active
    /\ pc[c] = "query"
    /\ IF reverseLikes(owner[c], P1_currentProfile(c)) = 0
       THEN /\ P1_finish(c)
            /\ reported' = [reported EXCEPT ![c] = "nomatch"]
       ELSE /\ pc' = [pc EXCEPT ![c] = "match"]
            /\ pendingSwipe' = [pendingSwipe EXCEPT ![c].ws = now]
            /\ UNCHANGED <<currentProfile, isLoading, reported>>
    /\ UNCHANGED <<owner, publicLikes, privateLikes, matches, act, matchNotification,
                   matchesList, metadata, profiles, nFail, chatVars, idVars, histVars, restVars, variant,
                   active, now, store, userStatus, snap, showLimitModal, message, inTxn,
                   pendingReset, pendingCreate, pendingPremium, nCalls, caller,
                   allowedInWindow, windowBase>>

\* setDoc(ref, data, {merge: true}) on users/{u}/matches/{id}: the fields
\* given replace those of an existing document.
setMatchDoc(docs, m) == {d \in docs : d.id # m.id} \cup {m}

\* The setDoc of the match resolves: the notification is shown, the match is
\* appended to the local list, and the swipe is finished.
P1_setMatch(c) ==
    /\ variant = "P1" /\ c \in active
    /\ pc[c] = "match"
    /\ LET u == owner[c]
           p == P1_currentProfile(c)
       IN  /\ matches' = [matches EXCEPT
                  ![u] = setMatchDoc(@, MatchDoc(matchId(u, p), p, pendingSwipe[c].ws))]
           /\ matchNotification' = [matchNotification EXCEPT ![c] = p]
           /\ matchesList' = [matchesList EXCEPT ![c] = Append(@, matchId(u, p))]
    /\ P1_finish(c)
    /\ reported' = [reported EXCEPT ![c] = "match"]
    /\ UNCHANGED <<owner, publicLikes, privateLikes, act, metadata, profiles, nFail,
                   chatVars, idVars, histVars, restVars, variant, active, now, store, userStatus, snap,
                   showLimitModal, message, inTxn, pendingReset, pendingCreate,
                   pendingPremium, nCalls, caller, allowedInWindow, windowBase>>

\* A Firestore call of handleSwipe rejects: the catch block sets the error,
\* the finally block clears isLoading; the profile stays.
P1_swipeFail(c) ==
    /\ variant = "P1" /\ c \in active
    /\ pc[c] \in {"meta", "priv", "pub", "query", "match"}
    /\ nFail < MaxFail
    /\ nFail' = nFail + 1
    /\ message' = Msg("swipe_error", 0)
    /\ isLoading' = [isLoading EXCEPT ![c] = FALSE]
    /\ pendingSwipe' = [pendingSwipe EXCEPT ![c] = NoWrite]
    /\ pc' = [pc EXCEPT ![c] = "idle"]
    /\ reported' = [reported EXCEPT ![c] = "error"]
    /\ UNCHANGED <<owner, publicLikes, privateLikes, matches, act, matchNotification,
                   matchesList, metadata, profiles, chatVars, idVars, histVars, restVars, variant, active,
                   now, store, userStatus, snap, showLimitModal, currentProfile, inTxn,
                   pendingReset, pendingCreate, pendingPremium, nCalls, caller,
                   allowedInWindow, windowBase>>

\* onClose of the match notification.
P1_closeNotification(c) ==
    /\ variant = "P1" /\ c \in active
    /\ matchNotification[c] # NoId
    /\ matchNotification' = [matchNotification EXCEPT ![c] = NoId]
    /\ UNCHANGED <<owner, publicLikes, privateLikes, matches, pc, act, matchesList,
                   metadata, profiles, nFail, reported, chatVars, idVars, histVars, restVars, quotaVars>>

\* handleMockNFTPurchase: the button of the limit card; updateDoc needs the
\* metadata document to exist.
P1_handleMockNFTPurchase(c) ==
    /\ variant = "P1" /\ c \in active
    /\ pc[c] = "idle" /\ ~isLoading[c]
    /\ P1_hasProfile(c) /\ isSwipeLimited(c)
    /\ IF metadata[owner[c]].exists
       THEN /\ metadata' = [metadata EXCEPT ![owner[c]].isPremium = TRUE]
            /\ userStatus' = [userStatus EXCEPT ![c].isPremium = TRUE]
            /\ message' = Msg("premium_on", 0)
       ELSE /\ message' = Msg("premium_error", 0)
            /\ UNCHANGED <<metadata, userStatus>>
    /\ UNCHANGED <<owner, publicLikes, privateLikes, matches, pc, act, matchNotification,
                   matchesList, profiles, nFail, reported, chatVars, idVars, histVars, restVars, variant,
                   active, now, store, snap, isLoading, showLimitModal, currentProfile,
                   inTxn, pendingReset, pendingCreate, pendingSwipe, pendingPremium,
                   nCalls, caller, allowedInWindow, windowBase>>

\* Who is signed in: UA and UB on one page each, or UB on two pages.
P1_owners == {[c \in Clients |-> IF c = 1 THEN UA ELSE UB], [c \in Clients |-> UB]}

\* The metadata of a user who swiped earlier today.
P1_InitCounts == {0, MAX_SWIPES_PER_DAY - 1}

\* Before the pages load, UA may have liked UB in an earlier session, unless
\* UA has a page open now.
InitP1 ==
    /\ variant = "P1"
    /\ active = Clients
    /\ QuotaIdle /\ ChatOff /\ IdIdle /\ HistIdle /\ AuthDone /\ RestOff
    /\ owner \in P1_owners
    /\ \E n \in P1_InitCounts, liked \in BOOLEAN :
          /\ liked => \A c \in Clients : owner[c] # UA
          /\ metadata = [u \in Users |->
                IF u \in {UA, UB} THEN Doc(IF liked /\ u = UA /\ n = 0 THEN 1 ELSE n,
                                           StartTime, FALSE)
                ELSE NoDoc]
          /\ publicLikes = [pr \in Pairs |-> IF liked /\ pr = <<UA, UB>> THEN 1 ELSE 0]
          /\ privateLikes = [pr \in Pairs |->
                IF liked /\ pr = <<UA, UB>> THEN "like" ELSE "none"]
    /\ matches = [u \in Users |-> {}]
    /\ pc = [c \in Clients |-> "unloaded"]
    /\ act = [c \in Clients |-> "none"]
    /\ matchNotification = [c \in Clients |-> NoId]
    /\ matchesList = [c \in Clients |-> <<>>]
    /\ profiles = [c \in Clients |-> <<>>]
    /\ nFail = 0
    /\ reported = [c \in Clients |-> "none"]

NextP1 ==
    \/ \E c \in Clients :
          \/ P1_loadData(c)
          \/ \E action \in {"like", "reject"} : P1_handleSwipe(c, action)
          \/ P1_setMetadata(c)
          \/ P1_setPrivateLike(c)
          \/ P1_addPublicLike(c)
          \/ P1_getDocs(c)
          \/ P1_setMatch(c)
          \/ P1_swipeFail(c)
          \/ P1_closeNotification(c)
          \/ P1_handleMockNFTPurchase(c)
    \/ Tick

SpecP1 == InitP1 /\ [][NextP1]_vars

\* A match document of user u with partner p exists.
HasMatch(u, p) == \E m \in matches[u] : m.id = matchId(u, p) /\ m.partnerId = p

\* Both public likes of the pair exist.
BothLikes(u, p) == publicLikes[<<u, p>>] > 0 /\ publicLikes[<<p, u>>] > 0

\* No swipe is under way on any page.
P1_quiet == \A c \in Clients : pc[c] \in {"unloaded", "idle"}

\* C14: a match record exists iff both likes exist. A match document exists
\* only for a pair with both likes; and once a like that found the reverse
\* like has been completed, both participants have the match document.
C14_MatchIffBothLikes ==
    /\ \A u, p \in Users : HasMatch(u, p) => BothLikes(u, p)
    /\ \A c \in Clients :
          (pc[c] = "idle" /\ reported[c] = "match") =>
              \A u, p \in Users :
                  (u # p /\ BothLikes(u, p)) => (HasMatch(u, p) /\ HasMatch(p, u))

\* C15: match symmetry. A like whose query runs when the reverse like is
\* already recorded goes on to create the match, and unless a Firestore call
\* rejects it reports the match, under the id that the partner computes for
\* the pair too; a like reports no match only when the reverse like is absent.
C15_MatchSymmetry ==
    [][\A c \in Clients :
          LET u == owner[c]
              p == P1_currentProfile(c)
          IN  /\ (pc[c] = "query" /\ pc'[c] # "query" /\ nFail' = nFail
                     /\ publicLikes[<<p, u>>] > 0) =>
                        pc'[c] = "match"
              /\ (pc[c] = "query" /\ pc'[c] = "idle" /\ reported'[c] = "nomatch") =>
                        publicLikes[<<p, u>>] = 0
              /\ (pc[c] = "match" /\ pc'[c] # "match" /\ nFail' = nFail) =>
                        /\ reported'[c] = "match"
                        /\ matchNotification'[c] = p
                        /\ \E m \in matches'[u] :
                              /\ m.partnerId = p
                              /\ m.id = matchId(u, p)
                              /\ m.id = matchId(p, u)]_vars

\* UA liked UB and was told there is no match; afterwards UB liked UA and was
\* told of the match.
C15_Witness ==
    /\ owner[1] = UA /\ owner[2] = UB
    /\ pc[1] = "idle" /\ reported[1] = "nomatch"
    /\ pc[2] = "idle" /\ reported[2] = "match"
    /\ matchNotification[2] = UA
    /\ \E m \in matches[UB] : m.id = matchId(UA, UB)

\* The ids of the match documents stored for the pair {u, p}, in either
\* participant's collection.
PairMatchIds(u, p) ==
    {m.id : m \in {x \in matches[u] : x.partnerId = p}
                  \cup {x \in matches[p] : x.partnerId = u}}

\* Page c has completed a like of the other user.
LikeDone(c) ==
    /\ pc[c] = "idle" /\ act[c] = "like"
    /\ reported[c] \in {"match", "nomatch"}
    /\ currentProfile[c] = 1

\* C16: match uniqueness under concurrency. When UA and UB like each other
\* from their own pages, in every interleaving of the writes and queries,
\* once both likes are completed the pair has exactly one match id (not none,
\* not two), and neither participant's collection holds two documents for it.
C16_MatchUnique ==
    (owner[1] = UA /\ owner[2] = UB /\ LikeDone(1) /\ LikeDone(2)) =>
        /\ Cardinality(PairMatchIds(UA, UB)) = 1
        /\ Cardinality({m \in matches[UA] : m.partnerId = UB}) <= 1
        /\ Cardinality({m \in matches[UB] : m.partnerId = UA}) <= 1

\* Both likes ran concurrently: each query saw the other's like, no call was
\* rejected.
C16_Witness ==
    /\ owner[1] = UA /\ owner[2] = UB /\ LikeDone(1) /\ LikeDone(2)
    /\ nFail = 0
    /\ reported[1] = "match" /\ reported[2] = "match"
    /\ matches[UA] # {} /\ matches[UB] # {}

\* C17: idempotent like insert. At most one like record exists per ordered
\* pair (liker, liked): liking the same target again (a retry, a second page)
\* adds no document to the public likes.
C17_OneLikePerPair ==
    \A pr \in Pairs : publicLikes[pr] <= 1

\* C18: idempotent match creation. Running the like again when the match
\* exists never changes the creation timestamp of the match document, and a
\* page never lists a match id twice.
C18_MatchCreatedOnce ==
    [][/\ \A u \in Users : \A m \in matches[u] :
             \E n \in matches'[u] : n.id = m.id /\ n.timestamp = m.timestamp
       /\ \A c \in Clients : \A i, j \in 1..Len(matchesList'[c]) :
             matchesList'[c][i] = matchesList'[c][j] => i = j]_vars

-----------------------------------------------------------------------------
\* The match id as a function of two arbitrary ids.

MaxIdLen == 2

\* Code units of '1', 'B', '_' and 'a': a digit, a capital, the separator
\* (the ids of MOCK_PROFILES contain it) and a small letter.
IdChars == {49, 66, Underscore, 97}

\* The non-empty strings over IdChars of at most MaxIdLen code units.
Ids == UNION {[1..n -> IdChars] : n \in 1..MaxIdLen}

\* const matchId = [userId, likedProfileId].sort().join('_')
Id_compute ==
    /\ variant = "Id"
    /\ result = NoId
    /\ result' = matchId(argA, argB)
    /\ UNCHANGED <<argA, argB, matchVars, chatVars, histVars, restVars, quotaVars>>

InitId ==
    /\ variant = "Id"
    /\ active = Clients
    /\ QuotaIdle /\ MatchOff /\ ChatOff /\ HistIdle /\ AuthDone /\ RestOff
    /\ argA \in Ids
    /\ argB \in Ids
    /\ result = NoId

NextId == Id_compute

SpecId == InitId /\ [][NextId]_vars

\* C19: the match id is order-independent: the id computed for (A, B) is the
\* id computed for (B, A), for all user ids A and B.
C19_MatchIdSymmetric ==
    result # NoId => result = matchId(argB, argA)

\* An id was computed for two different ids given in descending order.
C19_Witness ==
    /\ result # NoId
    /\ argA # argB
    /\ StringLess(argB, argA)
    /\ result = join(<<argB, argA>>)

\* C20: a failed swipe write changes nothing. At the step where the write of
\* a client's swipe fails, the stored status is unchanged, the client's local
\* status is unchanged, and its profile is the one shown when the swipe began.
C20_FailedSwipeNoEffect ==
    [][\A c \in Clients :
          (pendingSwipe[c] # NoWrite /\ pendingSwipe'[c] = NoWrite
              /\ message'.kind = "swipe_error") =>
                 /\ store' = store
                 /\ userStatus'[c] = userStatus[c]
                 /\ currentProfile'[c] = indexAtCall[c]]_vars

-----------------------------------------------------------------------------
\* Authentication (src/unnamed/part_000, lines 96-134): the component starts
\* with userId null; the onAuthStateChanged callback sets it.

\* The values crypto.randomUUID() may return.
RandomUUIDs == {<<114, 49>>, <<114, 50>>}

\* if (!db || !userId || !isAuthReady) return: isAuthReady is set together
\* with userId.
AuthReady(c) == sessionUserId[c] # NoId

\* The callback of onAuthStateChanged: user is the signed-in user, or null
\* when nobody is signed in (the sign-in failed or has not happened).
Auth_onAuthStateChanged(c) ==
    /\ variant = "App" /\ c \in active
    /\ sessionUserId[c] = NoId
    /\ \E user \in {NoId, UA}, uuid \in RandomUUIDs :
          sessionUserId' = [sessionUserId EXCEPT
                               ![c] = IF user # NoId THEN user ELSE uuid]
    /\ UNCHANGED <<matchVars, chatVars, idVars, histVars, msgVars, modalVars, fetchVars,
                   quotaVars>>

\* The listener and the handlers of App, behind their guards on userId.
Auth_onSnapshot(c) == AuthReady(c) /\ App_onSnapshot(c)
Auth_createCommit(c) == AuthReady(c) /\ App_createCommit(c)
Auth_createFail(c) == AuthReady(c) /\ App_createFail(c)
Auth_handleSwipe(c) == AuthReady(c) /\ App_handleSwipe(c)
Auth_swipeCommit(c) == AuthReady(c) /\ App_swipeCommit(c)
Auth_swipeFail(c) == AuthReady(c) /\ App_swipeFail(c)
Auth_handleGoPremium(c) == AuthReady(c) /\ App_handleGoPremium(c)
Auth_closeModal(c) == AuthReady(c) /\ App_closeModal(c)

\* One page; its status document is the one of the user id it ends up with.
InitAuth ==
    /\ variant = "App"
    /\ active = {1}
    /\ MatchOff /\ ChatOff /\ IdIdle /\ HistIdle /\ RestOff
    /\ now = StartTime
    /\ store = NoDoc
    /\ userStatus = [c \in Clients |-> INITIAL_USER_STATUS]
    /\ snap = [c \in Clients |-> "none"]
    /\ isLoading = [c \in Clients |-> TRUE]
    /\ showLimitModal = [c \in Clients |-> FALSE]
    /\ message = NoMsg
    /\ currentProfile = [c \in Clients |-> 0]
    /\ inTxn = [c \in Clients |-> FALSE]
    /\ pendingReset = [c \in Clients |-> NoDate]
    /\ pendingCreate = [c \in Clients |-> NoDate]
    /\ pendingSwipe = [c \in Clients |-> NoWrite]
    /\ pendingPremium = [c \in Clients |-> FALSE]
    /\ nCalls = 0
    /\ caller = 0
    /\ allowedInWindow = 0
    /\ windowBase = 0
    /\ sessionUserId = [c \in Clients |-> NoId]

NextAuth ==
    \E c \in Clients :
        \/ Auth_onAuthStateChanged(c)
        \/ Auth_onSnapshot(c)
        \/ Auth_createCommit(c)
        \/ Auth_createFail(c)
        \/ Auth_handleSwipe(c)
        \/ Auth_swipeCommit(c)
        \/ Auth_swipeFail(c)
        \/ Auth_handleGoPremium(c)
        \/ Auth_closeModal(c)

SpecAuth == InitAuth /\ [][NextAuth]_vars

\* No authenticated user id is available to any page.
NotAuthenticated == \A c \in active : sessionUserId[c] \notin Users

\* C21: not authenticated. While no authenticated user id is available,
\* handleSwipe and the upgrade write nothing: the stored counter does not
\* grow and the stored premium flag does not change.
C21_NoWriteUnauthenticated ==
    [][NotAuthenticated =>
          /\ store'.swipeCount <= store.swipeCount
          /\ store'.isPremium = store.isPremium]_vars

\* The elements of a sequence.
Range(seq) == {seq[i] : i \in 1..Len(seq)}

\* C22: no message is lost. Every message whose handleSendMessage has stored
\* it is in the messages array of its chat document, whatever sends and likes
\* ran at the same time.
C22_NoMessageLost ==
    \A m \in sent : m.newMessage \in Range(messages[m.chat])

\* A step in which the setDoc of a like of page c is settled.
LikeSettled(c) == pendingChat'[c] # pendingChat[c] /\ pendingChat'[c] \subseteq pendingChat[c]

\* C26: liking never destroys chat history. When the chat write of a like is
\* settled, every message of the user that a chat document held is still in
\* that document's messages array.
C26_LikeKeepsHistory ==
    [][(\E c \in Clients : LikeSettled(c)) =>
          \A pr \in Pairs : \A m \in Range(messages[pr]) :
              m # SystemMessage => m \in Range(messages'[pr])]_vars

\* The message shown is one of the 'Swipe successful' messages of the
\* transaction branch.
SuccessShown(msg) == msg.kind \in {"success", "success_limit"}

\* C23: success is reported only for a counted swipe (App, SpecApp). When
\* the transaction of a handleSwipe call ends, a 'Swipe successful' message
\* is shown if and only if the transaction incremented the stored counter.
C23_SuccessIffCounted ==
    [][\A c \in Clients :
          TxnEnd(c) =>
              (SuccessShown(message') <=> store'.swipeCount = store.swipeCount + 1)]_vars

\* C24: the window start is stable within a window (App, SpecApp). A
\* handleSwipe transaction that counts a swipe (the stored counter grows by
\* one, so the step is no rollover and no upgrade) leaves the stored
\* window-start timestamp unchanged.
C24_SwipeKeepsWindowStart ==
    [][\A c \in Clients :
          (TxnEnd(c) /\ store'.swipeCount = store.swipeCount + 1) =>
              store'.windowStart = store.windowStart]_vars

\* Client c turns premium locally in this step.
TurnsPremium(c) == ~userStatus[c].isPremium /\ userStatus'[c].isPremium

\* C25: premium is shown only if persisted (SpecModal). Whenever a client's
\* local status turns premium, the stored status is premium after the step:
\* the premium write succeeded, or the listener delivered a premium document.
C25_PremiumOnlyIfPersisted ==
    [][\A c \in Clients : TurnsPremium(c) => (store'.exists /\ store'.isPremium)]_vars

\* The stored status turns premium in this step: the premium write landed.
PremiumWrite == store.exists /\ ~store.isPremium /\ store'.exists /\ store'.isPremium

\* C27: upgrade frame (BM, SpecBM). The premium write leaves the stored
\* lastResetDate as it was, or sets it to the current date; it never removes
\* the field from the stored status.
C27_UpgradeKeepsResetDate ==
    [][PremiumWrite =>
          store'.windowStart \in {store.windowStart, now, getTodayDateString}]_vars

\* ============================================================ upgrade modal
\* src/src/Basematch-new.jsx: Web3Modal with handleUpgrade, handleConnectWallet
\* and handleMintNFT; src/unnamed/part_002: UpgradeModal with useWeb3Wallet,
\* handleMintOnBase and closeModal.  showLimitModal is isModalOpen / showModal.
\* The modal is a full-screen overlay: while it is shown, only its own
\* buttons can be clicked.

\* No wallet address: null.
NoWallet == <<>>

\* The mock address of the simulated wallet connection: '0x'.
MockAddress == <<48, 120>>

\* The modal of a client: its step, whether a wallet is connected (the
\* Web3Modal's walletAddress is not null; web3.walletConnected), whether a
\* connectWallet timeout is pending, and the mints under way.
ModalState(step, wallet, connecting, minting) ==
    [step |-> step, wallet |-> wallet, connecting |-> connecting, minting |-> minting]

\* useState('limit_reached') / useState('limit'), no wallet, nothing pending.
ModalInit == IF variant = "BM" THEN ModalState("limit_reached", FALSE, FALSE, 0)
             ELSE ModalState("limit", FALSE, FALSE, 0)

\* Web3Modal returns null before its useState while it is not open: whether
\* its walletAddress survives a closed modal is left open.
Web3Modal_afterClose(m) == {m, [m EXCEPT !.wallet = FALSE]}

\* handleConnectWallet(address): the step it sets.
handleConnectWallet_confirm(address) == "mint_confirm"

handleConnectWallet(address) ==
    IF address # NoWallet THEN "mint_confirm" ELSE "connect_wallet"

\* handleUpgrade(step): the upgrade link and a blocked swipe pass
\* 'limit_reached', the header's wallet button 'connect_wallet'.
BM_handleUpgrade(c, step) ==
    /\ variant = "BM" /\ c \in active
    /\ ~showLimitModal[c]
    /\ ~userStatus[c].isPremium
    /\ showLimitModal' = [showLimitModal EXCEPT ![c] = TRUE]
    /\ modal' = [modal EXCEPT ![c].step = step]
    /\ UNCHANGED <<matchVars, chatVars, idVars, histVars, authVars, msgVars, fetchVars,
                   variant, active, now, store, userStatus, snap, isLoading, message,
                   currentProfile, inTxn, pendingReset, pendingCreate, pendingSwipe,
                   pendingPremium, nCalls, caller, allowedInWindow, windowBase>>

\* onClose, the 'Tutup' button of the steps limit_reached and connect_wallet.
Web3Modal_onClose(c) ==
    /\ variant = "BM" /\ c \in active
    /\ showLimitModal[c]
    /\ modal[c].step \in {"limit_reached", "connect_wallet"}
    /\ showLimitModal' = [showLimitModal EXCEPT ![c] = FALSE]
    /\ \E m \in Web3Modal_afterClose(modal[c]) : modal' = [modal EXCEPT ![c] = m]
    /\ UNCHANGED <<matchVars, chatVars, idVars, histVars, authVars, msgVars, fetchVars,
                   variant, active, now, store, userStatus, snap, isLoading, message,
                   currentProfile, inTxn, pendingReset, pendingCreate, pendingSwipe,
                   pendingPremium, nCalls, caller, allowedInWindow, windowBase>>

\* onConnectWallet: 'Lanjut ke Pembayaran' of limit_reached and 'Kembali' of
\* mint_confirm pass null; 'Hubungkan Wallet' of connect_wallet is
\* handleConnect, which sets the modal's walletAddress and passes it.
Web3Modal_onConnectWallet(c, address) ==
    /\ variant = "BM" /\ c \in active
    /\ showLimitModal[c]
    /\ \/ modal[c].step \in {"limit_reached", "mint_confirm"} /\ address = NoWallet
       \/ modal[c].step = "connect_wallet" /\ address = MockAddress
    /\ modal' = [modal EXCEPT ![c].step = handleConnectWallet(address),
                              ![c].wallet = IF address # NoWallet THEN TRUE ELSE @]
    /\ UNCHANGED <<matchVars, chatVars, idVars, histVars, authVars, msgVars, fetchVars,
                   quotaVars>>

\* handlePayment, the pay button of mint_confirm and wallet_connected:
\* handleMintNFT up to its await of the simulated transaction.
Web3Modal_handlePayment(c) ==
    /\ variant = "BM" /\ c \in active
    /\ showLimitModal[c]
    /\ modal[c].step \in {"mint_confirm", "wallet_connected"}
    /\ modal' = [modal EXCEPT ![c].step = "mint_processing", ![c].minting = @ + 1]
    /\ UNCHANGED <<matchVars, chatVars, idVars, histVars, authVars, msgVars, fetchVars,
                   quotaVars>>

\* handleMintNFT after the simulated transaction: the updateDoc of the status
\* (skipped without a docRef; a rejection, as on a missing document, is only
\* logged), then the local status, the modal closed and the alert.
BM_mintDone(c) ==
    /\ variant = "BM" /\ c \in active
    /\ modal[c].minting > 0
    /\ \E ok \in BOOLEAN :
          IF ok /\ store.exists
          THEN /\ store' = BM_premiumDoc(store)
               /\ WindowRestart
          ELSE /\ WindowSame
               /\ UNCHANGED store
    /\ userStatus' = [userStatus EXCEPT ![c] = [@ EXCEPT !.isPremium = TRUE,
                                                         !.swipeCount = 0]]
    /\ showLimitModal' = [showLimitModal EXCEPT ![c] = FALSE]
    /\ message' = Msg("premium_on", 0)
    /\ \E m \in Web3Modal_afterClose([modal[c] EXCEPT !.minting = @ - 1]) :
          modal' = [modal EXCEPT ![c] = m]
    /\ UNCHANGED <<matchVars, chatVars, idVars, histVars, authVars, msgVars, fetchVars,
                   variant, active, now, snap, isLoading, currentProfile, inTxn,
                   pendingReset, pendingCreate, pendingSwipe, pendingPremium, nCalls,
                   caller>>

\* The upgrade link, and handleSwipe's blocked branch: setShowModal(true),
\* setModalStep('limit').  The link is rendered for a non-premium user.
DSS_openModal(c) ==
    /\ variant = "DSS" /\ c \in active
    /\ ~showLimitModal[c]
    /\ ~userStatus[c].isPremium
    /\ showLimitModal' = [showLimitModal EXCEPT ![c] = TRUE]
    /\ modal' = [modal EXCEPT ![c].step = "limit"]
    /\ UNCHANGED <<matchVars, chatVars, idVars, histVars, authVars, msgVars, fetchVars,
                   variant, active, now, store, userStatus, snap, isLoading, message,
                   currentProfile, inTxn, pendingReset, pendingCreate, pendingSwipe,
                   pendingPremium, nCalls, caller, allowedInWindow, windowBase>>

\* onClose = closeModal, the 'Tutup' button of the steps limit and connect.
UpgradeModal_onClose(c) ==
    /\ variant = "DSS" /\ c \in active
    /\ showLimitModal[c]
    /\ modal[c].step \in {"limit", "connect"}
    /\ showLimitModal' = [showLimitModal EXCEPT ![c] = FALSE]
    /\ modal' = [modal EXCEPT ![c].step = "limit"]
    /\ UNCHANGED <<matchVars, chatVars, idVars, histVars, authVars, msgVars, fetchVars,
                   variant, active, now, store, userStatus, snap, isLoading, message,
                   currentProfile, inTxn, pendingReset, pendingCreate, pendingSwipe,
                   pendingPremium, nCalls, caller, allowedInWindow, windowBase>>

\* handleProceed: the step it sets.
handleProceed_mint(walletConnected) == "mint"

handleProceed(walletConnected) == IF ~walletConnected THEN "connect" ELSE "mint"

\* 'Lanjut ke Minting' of the step limit.
UpgradeModal_handleProceed(c) ==
    /\ variant = "DSS" /\ c \in active
    /\ showLimitModal[c]
    /\ modal[c].step = "limit"
    /\ modal' = [modal EXCEPT ![c].step = handleProceed(modal[c].wallet)]
    /\ UNCHANGED <<matchVars, chatVars, idVars, histVars, authVars, msgVars, fetchVars,
                   quotaVars>>

\* web3.connectWallet: the header's wallet button while no modal covers it,
\* or 'Hubungkan Wallet' of the step connect.  It starts the timeout.
web3_connectWallet(c) ==
    /\ variant = "DSS" /\ c \in active
    /\ \/ ~showLimitModal[c]
       \/ modal[c].step = "connect" /\ ~modal[c].wallet
    /\ ~modal[c].connecting
    /\ modal' = [modal EXCEPT ![c].connecting = TRUE]
    /\ UNCHANGED <<matchVars, chatVars, idVars, histVars, authVars, msgVars, fetchVars,
                   quotaVars>>

\* The timeout of connectWallet fires: setWalletConnected(true).
web3_setWalletConnected(c) ==
    /\ variant = "DSS" /\ c \in active
    /\ modal[c].connecting
    /\ modal' = [modal EXCEPT ![c].connecting = FALSE, ![c].wallet = TRUE]
    /\ UNCHANGED <<matchVars, chatVars, idVars, histVars, authVars, msgVars, fetchVars,
                   quotaVars>>

\* setStep from a button: 'Lanjut Mint NFT' of the step connect, enabled once
\* the wallet is connected, and 'Kembali' of the step mint.
UpgradeModal_setStep(c, step) ==
    /\ variant = "DSS" /\ c \in active
    /\ showLimitModal[c]
    /\ \/ modal[c].step = "connect" /\ modal[c].wallet /\ step = "mint"
       \/ modal[c].step = "mint" /\ step = "connect"
    /\ modal' = [modal EXCEPT ![c].step = step]
    /\ UNCHANGED <<matchVars, chatVars, idVars, histVars, authVars, msgVars, fetchVars,
                   quotaVars>>

\* onMint = handleMintOnBase, 'Mint NFT Sekarang!' of the step mint, up to
\* its setTimeout.
UpgradeModal_onMint(c) ==
    /\ variant = "DSS" /\ c \in active
    /\ showLimitModal[c]
    /\ modal[c].step = "mint"
    /\ modal' = [modal EXCEPT ![c].step = "minting", ![c].minting = @ + 1]
    /\ message' = Msg("minting", 0)
    /\ UNCHANGED <<matchVars, chatVars, idVars, histVars, authVars, msgVars, fetchVars,
                   variant, active, now, store, userStatus, snap, isLoading,
                   showLimitModal, currentProfile, inTxn, pendingReset, pendingCreate,
                   pendingSwipe, pendingPremium, nCalls, caller, allowedInWindow,
                   windowBase>>

\* The timeout of handleMintOnBase: its setDoc lands and the modal is hidden,
\* or the setDoc is rejected and the catch branch leaves the modal as it is.
DSS_mintTimeout(c) ==
    /\ variant = "DSS" /\ c \in active
    /\ modal[c].minting > 0
    /\ modal' = [modal EXCEPT ![c].minting = @ - 1]
    /\ \E ok \in BOOLEAN :
          IF ok
          THEN /\ store' = DSS_premiumDoc(store)
               /\ showLimitModal' = [showLimitModal EXCEPT ![c] = FALSE]
               /\ message' = Msg("premium_on", 0)
               /\ WindowRestart
          ELSE /\ message' = Msg("premium_error", 0)
               /\ WindowSame
               /\ UNCHANGED <<store, showLimitModal>>
    /\ UNCHANGED <<matchVars, chatVars, idVars, histVars, authVars, msgVars, fetchVars,
                   variant, active, now, userStatus, snap, isLoading, currentProfile,
                   inTxn, pendingReset, pendingCreate, pendingSwipe, pendingPremium,
                   nCalls, caller>>

\* Either screen with its modal; every client starts with the modal hidden.
InitModal ==
    /\ variant \in {"BM", "DSS"}
    /\ active = Clients
    /\ MatchOff /\ ChatOff /\ IdIdle /\ HistIdle /\ AuthDone /\ MsgOff /\ FetchOff
    /\ InitScreen
    /\ store \in (IF variant = "BM" THEN BM_InitDocs ELSE DSS_InitDocs)
    /\ windowBase = store.swipeCount
    /\ userStatus = [c \in Clients |->
                        IF variant = "BM" THEN initialStatus ELSE DSS_initialSwipeData]
    /\ isLoading = [c \in Clients |-> FALSE]
    /\ modal = [c \in Clients |-> ModalInit]

NextModal ==
    \/ \E c \in Clients : BM_onSnapshot(c)
    \/ \E c \in Clients : BM_createCommit(c)
    \/ \E c \in Clients : BM_resetCommit(c)
    \/ \E c \in Clients : \E step \in {"limit_reached", "connect_wallet"} :
           BM_handleUpgrade(c, step)
    \/ \E c \in Clients : Web3Modal_onClose(c)
    \/ \E c \in Clients : \E address \in {NoWallet, MockAddress} :
           Web3Modal_onConnectWallet(c, address)
    \/ \E c \in Clients : Web3Modal_handlePayment(c)
    \/ \E c \in Clients : BM_mintDone(c)
    \/ \E c \in Clients : DSS_onSnapshot(c)
    \/ \E c \in Clients : DSS_createCommit(c)
    \/ \E c \in Clients : DSS_resetCommit(c)
    \/ \E c \in Clients : DSS_openModal(c)
    \/ \E c \in Clients : UpgradeModal_onClose(c)
    \/ \E c \in Clients : UpgradeModal_handleProceed(c)
    \/ \E c \in Clients : web3_connectWallet(c)
    \/ \E c \in Clients : web3_setWalletConnected(c)
    \/ \E c \in Clients : \E step \in {"mint", "connect"} : UpgradeModal_setStep(c, step)
    \/ \E c \in Clients : UpgradeModal_onMint(c)
    \/ \E c \in Clients : DSS_mintTimeout(c)

SpecModal == InitModal /\ [][NextModal]_vars

\* The steps that show the mint confirmation, and those shown while a mint is
\* processing.
ConfirmSteps == {"mint_confirm", "mint"}

ProcessingSteps == {"mint_processing", "minting"}

\* Client c starts a mint in this step; a mint of client c ends in this step.
MintStart(c) == modal'[c].minting > modal[c].minting

MintEnd(c) == modal'[c].minting < modal[c].minting

\* The stored status turns premium in this step.
PremiumStored == ~store.isPremium /\ store'.isPremium

\* The step is one of the modal's actions: it changes a modal, or shows or
\* hides one.
ModalAction == modal' # modal \/ showLimitModal' # showLimitModal

\* What holds in every state of the modal protocol: the confirmation step is
\* shown only with a connected wallet, and while a mint is processing the
\* modal is shown on its processing step and the mint is the only one.
ModalProtocolState ==
    \A c \in Clients :
        /\ (showLimitModal[c] /\ modal[c].step \in ConfirmSteps) => modal[c].wallet
        /\ modal[c].minting > 0 =>
               /\ showLimitModal[c]
               /\ modal[c].step \in ProcessingSteps
               /\ modal[c].minting = 1

\* What holds of every step: a mint starts from the confirmation step only,
\* and a modal action stores premium at the end of a mint only.
ModalProtocolStep ==
    /\ \A c \in Clients :
          MintStart(c) => (showLimitModal[c] /\ modal[c].step \in ConfirmSteps)
    /\ (ModalAction /\ PremiumStored) => \E c \in Clients : MintEnd(c)

\* C29: upgrade modal protocol (SpecModal). In every sequence of modal
\* actions the premium status is written only by a mint started from the
\* confirmation step, that step is shown only after a wallet was connected,
\* and while the mint is processing the modal stays on its processing step:
\* nothing closes it and no second mint starts.
C29_ModalProtocol == [](ModalProtocolState) /\ [][ModalProtocolStep]_vars

\* A mint went through the whole protocol: the premium status is stored and
\* the client's modal is hidden on its processing step.
C29_Witness ==
    \E c \in Clients :
        /\ store.exists /\ store.isPremium
        /\ ~showLimitModal[c]
        /\ modal[c].step \in ProcessingSteps
        /\ modal[c].minting = 0

MaxRetries == 3

\* What an await of fetch(url, options) can give: a response with its ok flag
\* and status, or a rejection (status 0: no response).
Responses == {[ok |-> TRUE, status |-> 200],
              [ok |-> FALSE, status |-> 404],
              [ok |-> FALSE, status |-> 500]}

Rejection == [ok |-> FALSE, status |-> 0]

Outcomes == Responses \cup {Rejection}

\* No response, no error: undefined.
Nothing == [ok |-> FALSE, status |-> -1]

\* The error the catch block receives at attempt i: the rejection of fetch,
\* or new Error(`HTTP error! status: ${response.status}`).
ErrorOf(i, outcome) == [attempt |-> i, status |-> outcome.status]

\* if (i === retries - 1)
isLastAttempt_never(i, retries) == FALSE

isLastAttempt(i, retries) == i = retries - 1

\* const delay = Math.pow(2, i) * 1000
delay(i) == (2 ^ i) * 1000

\* for (let i = 0; i < retries; i++) { ... await fetch(url, options): the
\* loop test and the call of fetch; the function returns undefined when the
\* loop ends.
fetchWithRetry_loop ==
    /\ variant = "Fetch"
    /\ fetch.pc = "loop"
    /\ IF fetch.i < fetch.retries
       THEN fetch' = [fetch EXCEPT !.pc = "fetch", !.attempts = @ + 1]
       ELSE fetch' = [fetch EXCEPT !.pc = "returned"]
    /\ UNCHANGED <<matchVars, chatVars, idVars, histVars, authVars, msgVars, modalVars,
                   quotaVars>>

\* The await of fetch settles: an ok response is returned; anything else is
\* caught, and is thrown at the last attempt or followed by the backoff.
fetchWithRetry_settle(outcome) ==
    /\ variant = "Fetch"
    /\ fetch.pc = "fetch"
    /\ IF outcome.ok
       THEN fetch' = [fetch EXCEPT !.pc = "returned", !.response = outcome]
       ELSE IF isLastAttempt(fetch.i, fetch.retries)
            THEN fetch' = [fetch EXCEPT !.pc = "thrown",
                                        !.errors = Append(@, ErrorOf(fetch.i, outcome)),
                                        !.thrown = ErrorOf(fetch.i, outcome)]
            ELSE fetch' = [fetch EXCEPT !.pc = "wait",
                                        !.errors = Append(@, ErrorOf(fetch.i, outcome)),
                                        !.delays = Append(@, delay(fetch.i))]
    /\ UNCHANGED <<matchVars, chatVars, idVars, histVars, authVars, msgVars, modalVars,
                   quotaVars>>

\* The backoff timer fires: i++.
fetchWithRetry_timeout ==
    /\ variant = "Fetch"
    /\ fetch.pc = "wait"
    /\ fetch' = [fetch EXCEPT !.pc = "loop", !.i = @ + 1]
    /\ UNCHANGED <<matchVars, chatVars, idVars, histVars, authVars, msgVars, modalVars,
                   quotaVars>>

InitFetch ==
    /\ variant = "Fetch"
    /\ active = Clients
    /\ QuotaIdle /\ MatchOff /\ ChatOff /\ IdIdle /\ HistIdle /\ AuthDone /\ MsgOff
    /\ ModalOff
    /\ \E n \in 1..MaxRetries :
          fetch = [retries |-> n, i |-> 0, pc |-> "loop", attempts |-> 0,
                   errors |-> <<>>, delays |-> <<>>, response |-> Nothing,
                   thrown |-> ErrorOf(-1, Nothing)]

NextFetch ==
    \/ fetchWithRetry_loop
    \/ \E outcome \in Outcomes : fetchWithRetry_settle(outcome)
    \/ fetchWithRetry_timeout

\* Every fetch settles and every timer fires.
SpecFetch ==
    /\ InitFetch
    /\ [][NextFetch]_vars
    /\ WF_vars(NextFetch)

\* The call has returned or thrown.
FetchDone == fetch.pc \in {"returned", "thrown"}

\* The delays waited so far are 1 s, 2 s, 4 s, ... in this order.
BackoffDelays ==
    \A k \in 1..Len(fetch.delays) : fetch.delays[k] = (2 ^ (k - 1)) * 1000

\* What holds in every state of a call with retries >= 1.
BoundedRetry ==
    /\ fetch.attempts <= fetch.retries
    /\ BackoffDelays
    /\ fetch.pc \in {"fetch", "returned"} =>
          /\ fetch.attempts = Len(fetch.errors) + 1
          /\ Len(fetch.delays) = Len(fetch.errors)
    /\ fetch.pc = "returned" =>
          /\ fetch.response.ok
          /\ fetch.thrown = ErrorOf(-1, Nothing)
    /\ fetch.pc = "thrown" =>
          /\ fetch.attempts = fetch.retries
          /\ Len(fetch.errors) = fetch.retries
          /\ fetch.thrown = fetch.errors[fetch.retries]
          /\ fetch.thrown.attempt = fetch.retries - 1
          /\ Len(fetch.delays) = fetch.retries - 1
          /\ fetch.response = Nothing

\* C30: fetchWithRetry is a bounded retry (SpecFetch). For retries = n >= 1
\* it makes at most n fetch calls, returns the first ok response without a
\* further call, throws the last error when all n calls fail, waits 2^i
\* seconds after failed attempt i only when another attempt follows, and
\* returns or throws in the end.
C30_BoundedRetry == [](BoundedRetry) /\ <>(FetchDone)

\* All three attempts failed: two waits, the third error thrown.
C30_Witness ==
    /\ fetch.pc = "thrown"
    /\ fetch.retries = 3
    /\ fetch.delays = <<1000, 2000>>

====
